---- MODULE Spec2Model ----
(***************************************************************************)
(* ollamachat: the streaming query pipeline of ChatUI (the UI event        *)
(* handlers, the sendMessageToLLM goroutine and the Ollama provider's      *)
(* frame decoder) together with the file-backed session store.  The       *)
(* provider call, the prompt builder, the file storage and the model       *)
(* selection are also specified alone, each on variables of its own.       *)
(*                                                                         *)
(* Text is a sequence of tokens, so that string concatenation is \o.       *)
(* Time is the wall clock in whole seconds: generateSessionID formats      *)
(* time.Now() to the second, so a session id is the second it was made in. *)
(***************************************************************************)
EXTENDS Integers, Sequences, FiniteSets, TLC

\* ---------------------------------------------------------------- bounds
MaxTime == 2      \* the clock stops here
MaxTurns == 2     \* submissions accepted
MaxCancels == 1   \* taps of the cancel button
MaxOps == 1       \* session operations: select, new, delete
MaxFrames == 1    \* frames of one response that do not end the stream
MaxEvents == 4    \* submissions, cancels and session operations together
MaxBody == 3      \* frames in the response body of a provider call taken alone
MaxHistory == 3   \* messages of the session a prompt is built for
MaxWindow == 3    \* largest MaxMessages of the session a prompt is built for
MaxClock == 2     \* the clock of the file storage taken alone stops here
MaxChoices == 4   \* events of the model selection taken alone
MaxCalls == 3     \* calls of the provider factory taken alone
MaxEdits == 1     \* entries of the settings dialog changed before Save
MaxSettings == 3  \* events of the settings dialog taken alone
MaxSeconds == 1   \* the clock of the settings dialog taken alone stops here

\* the k-th text fragment the backend streams in answer to turn t
ChunkText ==
    << <<"a11", "a12", "a13", "a14">>, <<"a21", "a22", "a23", "a24">>,
       <<"a31", "a32", "a33", "a34">>, <<"a41", "a42", "a43", "a44">> >>
Chunk(t, k) == <<ChunkText[t][k]>>
UserTexts == {<<"q">>}
StatusOK == 200   \* http.StatusOK

VARIABLES
    now,              \* wall clock (seconds)
    faults,           \* the operations of the file system that may fail (fixed for a run)
    store,            \* sessions/<id>.json files: id -> stored ChatSession
    uiReady,          \* FALSE after NewChatUI, TRUE after Initialize
    currentSession,   \* ChatUI.currentSession
    sessions,         \* ChatUI.sessions (cached list for the sidebar)
    chatContainer,    \* ChatUI.chatContainer.Objects: the displayed cards
    queryInProgress,  \* ChatUI.queryInProgress
    cancelFunc,       \* ChatUI.cancelFunc: 0 = nil, t = cancels turn t's context
    turns,            \* the sendMessageToLLM goroutines, by turn number
    nTurns,           \* number of goroutines started so far
    pendingRefresh,   \* started "go ui.refreshSessionsList()" not yet run
    nEvents,          \* UI events handled so far: [cancel, op]
    lastSave,         \* outcome of the most recent saveCurrentSession call
    \* one call of OllamaProvider.SendQuery, taken alone
    doOutcome,        \* what httpClient.Do gives: [err, status]
    respBody,         \* resp.Body: the frames the backend wrote, then EOF
    provPc,           \* "idle", "call", "decode" or "returned"
    decoded,          \* frames the decoder has consumed
    provNewStream,    \* newStream of handleStreamingResponse
    updates,          \* the calls of onUpdate so far: [chunk, newStream]
    provErr,          \* the error SendQuery returned (NoError for nil)
    \* one prompt built by onSendButtonTapped, taken alone
    promptSession,    \* ui.currentSession: [messages, maxMessages]
    inputText,        \* ui.inputField.Text
    fullPrompt,       \* fullPrompt handed to sendMessageToLLM
    \* the file storage, taken alone
    files,            \* <basePath>/sessions: session id -> contents of <id>.json
    prefsFile,        \* <basePath>/preferences.json: <<>> absent, <<doc>> present
    fsNow,            \* wall clock of the storage calls (seconds)
    fsLast,           \* the last storage call: its arguments and what it returned
    everSaved,        \* ids saved and not deleted since (history)
    \* the model selection, taken alone
    wallClock,        \* wall clock of the handlers (seconds)
    sessionsDir,      \* <basePath>/sessions: session id -> contents of <id>.json
    preferencesJson,  \* <basePath>/preferences.json: <<>> absent, <<doc>> present
    selSession,          \* ui.currentSession, with every field of models.ChatSession
    modelSelect,      \* ui.modelSelect.Selected
    selectedModel,    \* the model the last submission gave to sendMessageToLLM
    selReady,         \* FALSE after NewChatUI, TRUE after Initialize
    nChoices,         \* events handled so far
    \* the provider factory and App.SwitchProvider, taken alone
    llmConfig,        \* config.LLM: [provider, ollamaBaseURL, openaiAPIKey]
    appProvider,      \* App.provider
    chatProvider,     \* ChatUI.provider and ChatUI.currentProviderType
    factoryLast,      \* the last call: its argument and what it returned
    nCalls,           \* calls made so far
    \* the settings dialog and the configuration, taken alone
    config,           \* *config.Config of App, ChatUI and SettingsDialog: <<>> before LoadConfig
    configYaml,       \* configs/config.yaml: <<>> absent, <<doc>> present
    firstRun,         \* LoadConfig found no file and wrote the default one (history)
    setSession,       \* ui.currentSession, with every field of models.ChatSession
    setDir,           \* <basePath>/sessions: session id -> contents of <id>.json
    setClock,         \* wall clock of the handlers (seconds)
    settingsLast,     \* the last call of saveSettings: its texts and what it returned
    createdUnder,     \* config.UI.MaxMessages when the current session was made (history)
    sentPrompt,       \* fullPrompt of the last submission in the current session
    nSettings         \* events handled so far

\* the variables of the user interface and its goroutines
uiVars == <<now, faults, store, uiReady, currentSession, sessions, chatContainer,
            queryInProgress, cancelFunc, turns, nTurns, pendingRefresh, nEvents,
            lastSave>>

provVars == <<doOutcome, respBody, provPc, decoded, provNewStream, updates, provErr>>

promptVars == <<promptSession, inputText, fullPrompt>>

storeVars == <<files, prefsFile, fsNow, fsLast, everSaved>>

selVars == <<wallClock, sessionsDir, preferencesJson, selSession, modelSelect,
             selectedModel, selReady, nChoices>>

factoryVars == <<llmConfig, appProvider, chatProvider, factoryLast, nCalls>>

setVars == <<config, configYaml, firstRun, setSession, setDir, setClock,
             settingsLast, createdUnder, sentPrompt, nSettings>>

vars == <<uiVars, provVars, promptVars, storeVars, selVars, factoryVars, setVars>>


\* ------------------------------------------------------------ data model
TurnIds == 1..MaxTurns

\* models.NewChatMessage (the timestamp field is not modelled)
NewChatMessage(sender, content) == [sender |-> sender, content |-> content]

\* models.NewChatSessionWithConfig with generateSessionID
NewChatSessionWithConfig(t) ==
    [id |-> t, messages |-> <<>>, updatedAt |-> t]

\* ChatUI.createNewSessionWithDefaults
createNewSessionWithDefaults(t) == NewChatSessionWithConfig(t)

\* ChatSession.AddMessage
AddMessage(cs, message, t) ==
    [cs EXCEPT !.messages = Append(@, message), !.updatedAt = t]

\* ------------------------------------------------------ file storage
\* a save that only touches the time of a record that exists already
SaveChatSessionOnce(st, session, t) ==
    [i \in DOMAIN st \cup {session.id} |->
        IF i # session.id THEN st[i]
        ELSE IF i \in DOMAIN st THEN [st[i] EXCEPT !.updatedAt = t]
        ELSE [session EXCEPT !.updatedAt = t]]

\* FileStorage.SaveChatSession: the record is overwritten whole and its
\* UpdatedAt is refreshed on the copy that is written.
SaveChatSession(st, session, t) ==
    [i \in DOMAIN st \cup {session.id} |->
        IF i = session.id THEN [session EXCEPT !.updatedAt = t] ELSE st[i]]

\* FileStorage.DeleteChatSession
DeleteChatSession(st, id) == [i \in DOMAIN st \ {id} |-> st[i]]

\* a listing in the order the directory gives
ListChatSessionsUnsorted(st) ==
    LET n == Cardinality(DOMAIN st)
    IN  { [k \in 1..n |-> st[f[k]]] : f \in
            { g \in [1..n -> DOMAIN st] : \A i, j \in 1..n : i # j => g[i] # g[j] } }

\* FileStorage.ListChatSessions: every stored session, most recently updated
\* first; sort.Slice is not stable, so sessions with equal UpdatedAt come in
\* any order.
ListChatSessions(st) ==
    LET n == Cardinality(DOMAIN st)
    IN  { [k \in 1..n |-> st[f[k]]] : f \in
            { g \in [1..n -> DOMAIN st] :
                /\ \A i, j \in 1..n : i # j => g[i] # g[j]
                /\ \A i \in 1..n : \A j \in 1..n :
                      i < j => st[g[i]].updatedAt >= st[g[j]].updatedAt } }

\* the results of a file write: it fails only with an I/O error
Outcomes == IF "save" \in faults THEN {TRUE, FALSE} ELSE {TRUE}

\* the results of the write made by the auto-save of a submission: it fails
\* every time when the storage cannot be written at submissions
SubmitOutcomes == IF "submit" \in faults THEN {FALSE} ELSE Outcomes

\* the results of the write made by Initialize and by the session operations
\* (select, new, delete)
OpOutcomes == IF "ops" \in faults THEN {TRUE, FALSE} ELSE Outcomes

\* ChatUI.loadAllSessions: when ListChatSessions fails the cached list is
\* set to the empty list
ListOutcomes(st) ==
    ListChatSessions(st) \cup (IF "other" \in faults THEN {<<>>} ELSE {})

\* ------------------------------------------------------------- display
\* ChatUI.createMessageCardWithTimestamp: a card shows a title and a text
Card(sender, content) == [sender |-> sender, content |-> content]

\* the loops "for _, msg := range ui.currentSession.Messages { addMessageCard }"
CardsOf(messages) ==
    [k \in 1..Len(messages) |->
        Card(IF messages[k].sender = "user" THEN "user" ELSE "llm",
             messages[k].content)]

CancelMarker == <<"Request canceled">>
ErrorMarker(err) == <<"Error">> \o err

\* ------------------------------------------------------------- errors
\* An error is the sequence of its message parts: fmt.Errorf("x: %w", e)
\* puts "x" in front of e, and err.Error() is the parts joined.
NoError == <<>>
ContextCanceled == <<"context canceled">>
Wrap(prefix, err) == <<prefix>> \o err

\* ------------------------------------------------------------- turns
\* pc, cancelled (the turn's context), newStream, llmResponse, card and frames
\* are the goroutine's own state; delivered (the chunks the provider has handed
\* to the callback), atCancel (delivered when cancel was tapped) and session
\* (the id of the session the turn was submitted in) are history; err is what
\* SendQueryWithOptions returned, kept once the goroutine has ended; unsaved
\* (history) tells that the save made at the submission failed.
NoTurn ==
    [pc |-> "none", cancelled |-> FALSE, newStream |-> TRUE,
     llmResponse |-> <<>>, card |-> 0, frames |-> 0,
     delivered |-> <<>>, atCancel |-> <<>>, session |-> -1, err |-> <<>>,
     unsaved |-> FALSE]

NoSave == [id |-> -1, ok |-> FALSE]

\* the sessions directory left by earlier runs: a session made at time 0 with
\* one completed turn, and an empty session made at time 1
OldStore ==
    [i \in {0, 1} |->
        [id |-> i,
         messages |-> IF i = 0
                      THEN << NewChatMessage("user", <<"q0">>),
                              NewChatMessage("llm", <<"a0">>) >>
                      ELSE <<>>,
         updatedAt |-> i]]

\* the second the application is started in: the one after the old sessions
StartTime == Cardinality(DOMAIN OldStore)

\* the state after NewChatUI, before Initialize, over the sessions directory st
CreatedOver(st) ==
    /\ now = StartTime
    /\ store = st
    /\ uiReady = FALSE
    /\ currentSession = [id |-> -1, messages |-> <<>>, updatedAt |-> StartTime]
    /\ sessions = <<>>
    /\ chatContainer = <<>>
    /\ queryInProgress = FALSE
    /\ cancelFunc = 0
    /\ turns = [t \in TurnIds |-> NoTurn]
    /\ nTurns = 0
    /\ pendingRefresh = 0
    /\ nEvents = [cancel |-> 0, op |-> 0]
    /\ lastSave = NoSave

\* the state after NewChatUI, before Initialize
Created == CreatedOver(OldStore)

\* time.Now(): the clock is read; it may have advanced since the last reading
TimeNow == now' \in {now} \cup (IF now < MaxTime THEN {now + 1} ELSE {})

\* a UI event of the given kind is taken from the event queue
EventsLeft == nTurns + nEvents.cancel + nEvents.op < MaxEvents

UIEvent(kind, max) ==
    /\ uiReady
    /\ EventsLeft
    /\ nEvents[kind] < max
    /\ nEvents' = [nEvents EXCEPT ![kind] = @ + 1]
    /\ UNCHANGED <<faults, uiReady>>

\* a save that reports success without writing the record
saveCurrentSessionUnwritten(ok, st, session, t) ==
    /\ store' = st
    /\ lastSave' = [id |-> session.id, ok |-> ok]

\* ChatUI.saveCurrentSession at time t: the write succeeds or fails with an
\* I/O error (which the callers log or show)
saveCurrentSession(ok, st, session, t) ==
    /\ store' = IF ok THEN SaveChatSession(st, session, t) ELSE st
    /\ lastSave' = [id |-> session.id, ok |-> ok]

\* a start that takes the last session of the list
loadCurrentSessionLast(listed, t) ==
    IF Len(listed) > 0 THEN listed[Len(listed)] ELSE createNewSessionWithDefaults(t)

\* ChatUI.loadCurrentSession at time t, the session it makes current: the
\* first of the sessions loadAllSessions listed, or a new one
loadCurrentSession(listed, t) ==
    IF Len(listed) > 0 THEN listed[1] ELSE createNewSessionWithDefaults(t)

\* ChatUI.Initialize: loadAllSessions, loadCurrentSession,
\* loadCurrentSessionMessages
Initialize ==
    /\ UNCHANGED <<provVars, promptVars, storeVars, selVars, factoryVars, setVars>>
    /\ ~uiReady
    /\ uiReady' = TRUE
    /\ TimeNow
    /\ \E listed \in ListOutcomes(store) :
         /\ sessions' = listed
         /\ currentSession' = loadCurrentSession(listed, now')
         /\ IF Len(listed) > 0
            THEN UNCHANGED <<store, lastSave>>
            ELSE \E ok \in OpOutcomes :
                      saveCurrentSession(ok, store, currentSession', now')
    /\ chatContainer' = CardsOf(currentSession'.messages)
    /\ UNCHANGED <<faults, queryInProgress, cancelFunc, turns, nTurns,
                   pendingRefresh, nEvents>>

\* ChatUI.addMessageCard: the card added to the display
addMessageCard(cards, isUserMessage, content) ==
    Append(cards, Card(IF isUserMessage THEN "user" ELSE "llm", content))

\* a saveToHistory that is always taken
addMessageToHistoryAlways(cs, isUserMessage, content, saveToHistory, t) ==
    AddMessage(cs, NewChatMessage(IF isUserMessage THEN "user" ELSE "llm", content), t)

\* ChatUI.addMessageCard: the message added to the session when saveToHistory
addMessageToHistory(cs, isUserMessage, content, saveToHistory, t) ==
    IF saveToHistory
    THEN AddMessage(cs, NewChatMessage(IF isUserMessage THEN "user" ELSE "llm",
                                       content), t)
    ELSE cs

\* every card a goroutine still holds is no longer displayed once
\* chatContainer.Objects has been replaced
Detached == [t \in TurnIds |-> [turns[t] EXCEPT !.card = 0]]

\* a goroutine that is not started when the auto-save has failed
goSendMessageToLLMIfSaved(id, ok) ==
    [NoTurn EXCEPT !.pc = IF ok THEN "start" ELSE "done",
                   !.session = id, !.unsaved = ~ok]

\* "go ui.sendMessageToLLM(ctx, selectedModel, fullPrompt)": the goroutine is
\* started whatever the auto-save of the submission gave
goSendMessageToLLM(id, ok) ==
    [NoTurn EXCEPT !.pc = "start", !.session = id, !.unsaved = ~ok]

\* ChatUI.onSendButtonTapped, with addMessageCard(query, true, true) and
\* "go ui.sendMessageToLLM"
onSendButtonTapped ==
    /\ UNCHANGED <<provVars, promptVars, storeVars, selVars, factoryVars, setVars>>
    /\ uiReady
    /\ \E query \in UserTexts \cup {<<>>} :
         IF queryInProgress \/ query = <<>>
         THEN UNCHANGED vars
         ELSE /\ nTurns < MaxTurns
              /\ EventsLeft
              /\ TimeNow
              /\ queryInProgress' = TRUE
              /\ chatContainer' = addMessageCard(chatContainer, TRUE, query)
              /\ currentSession' =
                    addMessageToHistory(currentSession, TRUE, query, TRUE, now')
              /\ \E ok \in SubmitOutcomes :
                    saveCurrentSession(ok, store, currentSession', now')
              /\ pendingRefresh' = pendingRefresh + 1
              /\ cancelFunc' = nTurns + 1
              /\ nTurns' = nTurns + 1
              /\ turns' = [turns EXCEPT ![nTurns + 1] =
                              goSendMessageToLLM(currentSession.id, lastSave'.ok)]
              /\ UNCHANGED <<faults, uiReady, sessions, nEvents>>

\* ChatUI.onCancelButtonTapped
onCancelButtonTapped ==
    /\ UNCHANGED <<provVars, promptVars, storeVars, selVars, factoryVars, setVars>>
    /\ UIEvent("cancel", MaxCancels)
    /\ IF cancelFunc # 0
       THEN /\ turns' = [turns EXCEPT ![cancelFunc] =
                          IF @.pc = "done" THEN @
                          ELSE [@ EXCEPT !.cancelled = TRUE,
                                         !.atCancel = turns[cancelFunc].delivered]]
            /\ chatContainer' = addMessageCard(chatContainer, FALSE, CancelMarker)
            /\ currentSession' = addMessageToHistory(currentSession, FALSE,
                                                     CancelMarker, FALSE, now)
       ELSE UNCHANGED <<turns, chatContainer, currentSession>>
    /\ queryInProgress' = FALSE
    /\ UNCHANGED <<now, store, sessions, cancelFunc, nTurns, pendingRefresh,
                   lastSave>>

\* an error that is never shown
handleLLMResponseErrorSilent(cards, err) == cards

\* ChatUI.handleLLMResponseError
handleLLMResponseError(cards, err) ==
    IF err # NoError /\ err # ContextCanceled
    THEN addMessageCard(cards, FALSE, ErrorMarker(err))
    ELSE cards

\* a return that leaves queryInProgress as it is
sendMessageToLLMReturnBusy(t, err, cs, cards) ==
    /\ TimeNow
    /\ currentSession' = cs
    /\ \E ok \in Outcomes : saveCurrentSession(ok, store, cs, now')
    /\ queryInProgress' = queryInProgress
    /\ chatContainer' = handleLLMResponseError(cards, err)
    /\ turns' = [turns EXCEPT ![t] = [NoTurn EXCEPT !.pc = "done", !.err = err,
                                                    !.unsaved = turns[t].unsaved]]

\* ChatUI.sendMessageToLLM after SendQueryWithOptions returned err: the final
\* save, queryInProgress = false, handleLLMResponseError; the goroutine ends.
\* cs and cards are the session and the cards as the last callback left them.
sendMessageToLLMReturn(t, err, cs, cards) ==
    /\ TimeNow
    /\ currentSession' = cs
    /\ \E ok \in Outcomes : saveCurrentSession(ok, store, cs, now')
    /\ queryInProgress' = FALSE
    /\ chatContainer' = handleLLMResponseError(cards, err)
    /\ turns' = [turns EXCEPT ![t] = [NoTurn EXCEPT !.pc = "done", !.err = err,
                                                    !.unsaved = turns[t].unsaved]]

\* OllamaProvider.SendQuery up to the call of handleStreamingResponse:
\* httpClient.Do fails at once on a cancelled context, and otherwise
\* succeeds, fails in the transport or answers with a status other than 200.
SendQuery(t) ==
    /\ UNCHANGED <<provVars, promptVars, storeVars, selVars, factoryVars, setVars>>
    /\ turns[t].pc = "start"
    /\ IF turns[t].cancelled
       THEN sendMessageToLLMReturn(t,
                Wrap("failed to send request", Wrap("Post", ContextCanceled)),
                currentSession, chatContainer)
       ELSE \/ /\ turns' = [turns EXCEPT ![t].pc = "stream"]
               /\ UNCHANGED <<now, store, currentSession, chatContainer,
                              queryInProgress, lastSave>>
            \/ \E err \in { Wrap("failed to send request",
                                 Wrap("Post", <<"connection refused">>)),
                            <<"unexpected status code">> } :
                 sendMessageToLLMReturn(t, err, currentSession, chatContainer)
    /\ UNCHANGED <<faults, uiReady, sessions, cancelFunc, nTurns, pendingRefresh, nEvents>>

\* the frames the backend can send: {"response": .., "done": .., "error": ..}
Frames(t) ==
    [response : {<<>>, Chunk(t, turns[t].frames + 1)},
     done : BOOLEAN,
     error : {<<>>, <<"boom">>}]

\* the StreamCallback closure of ChatUI.sendMessageToLLM: its writes to
\* ui.currentSession
OnUpdateSession(cs, chunk, newStream, llmResponse, t) ==
    IF newStream
    THEN AddMessage(cs, NewChatMessage("llm", chunk), t)
    ELSE IF /\ Len(cs.messages) > 0
            /\ cs.messages[Len(cs.messages)].sender = "llm"
         THEN [cs EXCEPT !.messages[Len(cs.messages)].content = llmResponse \o chunk]
         ELSE cs

\* the StreamCallback closure of ChatUI.sendMessageToLLM: addMessageCard on
\* the first chunk, updateRichText(card, llmResponse) afterwards
OnUpdateCards(cards, card, chunk, newStream, llmResponse) ==
    IF newStream
    THEN Append(cards, Card("llm", chunk))
    ELSE IF card # 0
         THEN [cards EXCEPT ![card].content = llmResponse \o chunk]
         ELSE cards

\* the goroutine's variables after the callback ran for a frame's response
OnUpdateTurn(turn, response, nCards) ==
    IF response = <<>> THEN turn
    ELSE [turn EXCEPT
            !.newStream = FALSE,
            !.llmResponse = IF turn.newStream THEN response ELSE @ \o response,
            !.card = IF turn.newStream THEN nCards + 1 ELSE @,
            !.delivered = @ \o response]

\* OllamaProvider.handleStreamingResponse: one iteration of the decode loop
\* with the callback it makes; when the loop ends, sendMessageToLLM runs on
\* to its end without blocking again.
handleStreamingResponse(t) ==
    /\ UNCHANGED <<provVars, promptVars, storeVars, selVars, factoryVars, setVars>>
    /\ turns[t].pc = "stream"
    /\ \/ \* decoder.Decode returns a frame
          \E f \in Frames(t) :
            LET called == f.error = <<>> /\ f.response # <<>>
                cs == IF called
                      THEN OnUpdateSession(currentSession, f.response,
                               turns[t].newStream, turns[t].llmResponse, now')
                      ELSE currentSession
                cards == IF called
                         THEN OnUpdateCards(chatContainer, turns[t].card,
                                  f.response, turns[t].newStream,
                                  turns[t].llmResponse)
                         ELSE chatContainer
            IN  IF f.error # <<>>
                THEN sendMessageToLLMReturn(t, <<"ollama error">> \o f.error,
                                            currentSession, chatContainer)
                ELSE IF f.done
                THEN sendMessageToLLMReturn(t, NoError, cs, cards)
                ELSE /\ turns[t].frames < MaxFrames
                     /\ IF called /\ turns[t].newStream
                        THEN TimeNow ELSE UNCHANGED now
                     /\ currentSession' = cs
                     /\ chatContainer' = cards
                     /\ turns' = [turns EXCEPT ![t] =
                           [OnUpdateTurn(@, f.response, Len(chatContainer))
                               EXCEPT !.frames = @ + 1]]
                     /\ UNCHANGED <<store, queryInProgress, lastSave>>
       \/ \* decoder.Decode fails: the body read was aborted by the cancelled
          \* context, or the frame is malformed / the read timed out
          \E cause \in (IF turns[t].cancelled THEN {ContextCanceled} ELSE {})
                          \cup {<<"invalid character">>} :
             sendMessageToLLMReturn(t, Wrap("failed to decode response", cause),
                                    currentSession, chatContainer)
       \/ \* io.EOF: the loop is left and nil is returned
          sendMessageToLLMReturn(t, NoError, currentSession, chatContainer)
    /\ UNCHANGED <<faults, uiReady, sessions, cancelFunc, nTurns, pendingRefresh, nEvents>>

\* ChatUI.onSessionSelected, its LoadChatSession call: the latest stored
\* version of the selected session, or the copy from the cached list when the
\* record is missing or cannot be read
LoadOrFallback(st, selectedSession) ==
    IF selectedSession.id \in DOMAIN st
    THEN {st[selectedSession.id]} \cup (IF "other" \in faults THEN {selectedSession} ELSE {})
    ELSE {selectedSession}

\* ChatUI.onSessionSelected
onSessionSelected ==
    /\ UNCHANGED <<provVars, promptVars, storeVars, selVars, factoryVars, setVars>>
    /\ UIEvent("op", MaxOps)
    /\ \E i \in 1..Len(sessions) :
         LET selectedSession == sessions[i] IN
         \* the handler returns at once, with nothing changed, when the
         \* selected session is the current one
         /\ selectedSession.id # currentSession.id
         /\ TimeNow
         /\ \E ok \in OpOutcomes :
              /\ saveCurrentSession(ok, store, currentSession, now')
              /\ IF ~ok
                 THEN UNCHANGED <<currentSession, chatContainer, turns>>
                 ELSE \E latestSession \in LoadOrFallback(store', selectedSession) :
                          /\ currentSession' = latestSession
                          /\ chatContainer' = CardsOf(latestSession.messages)
                          /\ turns' = Detached
    /\ UNCHANGED <<sessions, queryInProgress, cancelFunc, nTurns, pendingRefresh>>

\* ChatUI.onNewSessionTapped
onNewSessionTapped ==
    /\ UNCHANGED <<provVars, promptVars, storeVars, selVars, factoryVars, setVars>>
    /\ UIEvent("op", MaxOps)
    /\ TimeNow
    /\ \E ok \in OpOutcomes :
         IF ~ok
         THEN /\ saveCurrentSession(FALSE, store, currentSession, now')
              /\ UNCHANGED <<currentSession, sessions, chatContainer, turns>>
         ELSE LET newSession == createNewSessionWithDefaults(now')
                  saved == SaveChatSession(store, currentSession, now')
              IN  /\ currentSession' = newSession
                  /\ \E ok2 \in OpOutcomes :
                        saveCurrentSession(ok2, saved, newSession, now')
                  /\ sessions' = <<newSession>> \o sessions
                  /\ chatContainer' = <<>>
                  /\ turns' = Detached
    /\ UNCHANGED <<queryInProgress, cancelFunc, nTurns, pendingRefresh>>

\* ChatUI.deleteCurrentSession
deleteCurrentSession ==
    /\ UNCHANGED <<provVars, promptVars, storeVars, selVars, factoryVars, setVars>>
    /\ UIEvent("op", MaxOps)
    /\ LET deleted == DeleteChatSession(store, currentSession.id) IN
       \/ \* os.Remove fails, as it does when there is no record: nothing is
          \* changed
          /\ "other" \in faults \/ currentSession.id \notin DOMAIN store
          /\ UNCHANGED <<now, store, currentSession, chatContainer, turns,
                         pendingRefresh, lastSave>>
       \/ \* the listing after the removal fails: the handler returns
          /\ "other" \in faults
          /\ currentSession.id \in DOMAIN store
          /\ store' = deleted
          /\ UNCHANGED <<now, currentSession, chatContainer, turns,
                         pendingRefresh, lastSave>>
       \/ \E listed \in ListChatSessions(deleted) :
            /\ currentSession.id \in DOMAIN store
            /\ TimeNow
            /\ IF Len(listed) = 0
               THEN /\ currentSession' = createNewSessionWithDefaults(now')
                    /\ \E ok \in OpOutcomes :
                         saveCurrentSession(ok, deleted, currentSession', now')
               ELSE /\ currentSession' = listed[1]
                    /\ store' = deleted
                    /\ UNCHANGED lastSave
            /\ chatContainer' = CardsOf(currentSession'.messages)
            /\ turns' = Detached
            /\ pendingRefresh' = pendingRefresh + 1
    /\ UNCHANGED <<sessions, queryInProgress, cancelFunc, nTurns>>

\* ChatUI.refreshSessionsList, run by "go ui.refreshSessionsList()"
refreshSessionsList ==
    /\ UNCHANGED <<provVars, promptVars, storeVars, selVars, factoryVars, setVars>>
    /\ pendingRefresh > 0
    /\ pendingRefresh' = pendingRefresh - 1
    /\ sessions' \in ListOutcomes(store)
    /\ UNCHANGED <<now, faults, store, uiReady, currentSession, chatContainer,
                   queryInProgress, cancelFunc, turns, nTurns, nEvents, lastSave>>

Next ==
    \/ Initialize
    \/ onSendButtonTapped
    \/ onCancelButtonTapped
    \/ \E t \in TurnIds : SendQuery(t)
    \/ \E t \in TurnIds : handleStreamingResponse(t)
    \/ onSessionSelected
    \/ onNewSessionTapped
    \/ deleteCurrentSession
    \/ refreshSessionsList

\* no provider call is looked at alone
ProviderIdle ==
    /\ doOutcome = [err |-> FALSE, status |-> StatusOK]
    /\ respBody = <<>>
    /\ provPc = "idle"
    /\ decoded = 0
    /\ provNewStream = TRUE
    /\ updates = <<>>
    /\ provErr = NoError

\* no prompt is looked at alone
PromptIdle ==
    /\ promptSession = [messages |-> <<>>, maxMessages |-> 0]
    /\ inputText = <<>>
    /\ fullPrompt = <<>>

\* models.ChatSession{}: the zero value
ZeroSession ==
    [id |-> "", name |-> "", messages |-> <<>>, createdAt |-> 0, updatedAt |-> 0,
     model |-> "", provider |-> "", maxMessages |-> 0, temperature |-> 0]

\* storage.AppPreferences{}: the zero value
ZeroPreferences ==
    [windowWidth |-> 0, windowHeight |-> 0, theme |-> "", fontSize |-> 0,
     maxHistoryLength |-> 0, defaultModel |-> "", defaultProvider |-> "",
     autoSaveHistory |-> FALSE, enableMarkdown |-> FALSE, showTimestamps |-> FALSE,
     maxContextLength |-> 0, enableToolCalling |-> FALSE,
     enableMCPServers |-> FALSE, enableAgents |-> FALSE, logLevel |-> ""]

\* no storage call has been made
NoCall ==
    [op |-> "none", id |-> "", err |-> NoError, session |-> ZeroSession,
     list |-> <<>>, prefs |-> ZeroPreferences]

\* a sessions directory without a file
NoFiles == [n \in {} |-> <<>>]

\* the file storage is not looked at alone
StoreIdle ==
    /\ files = <<>>
    /\ prefsFile = <<>>
    /\ fsNow = 0
    /\ fsLast = <<>>
    /\ everSaved = {}

\* the model selection is not looked at alone
SelectionIdle ==
    /\ wallClock = 0
    /\ sessionsDir = <<>>
    /\ preferencesJson = <<>>
    /\ selSession = <<>>
    /\ modelSelect = ""
    /\ selectedModel = ""
    /\ selReady = FALSE
    /\ nChoices = 0

\* the provider factory is not looked at alone
FactoryIdle ==
    /\ llmConfig = <<>>
    /\ appProvider = <<>>
    /\ chatProvider = <<>>
    /\ factoryLast = <<>>
    /\ nCalls = 0

\* no part of the program is looked at alone
\* the settings dialog is not looked at alone
SettingsIdle ==
    /\ config = <<>>
    /\ configYaml = <<>>
    /\ firstRun = FALSE
    /\ setSession = <<>>
    /\ setDir = <<>>
    /\ setClock = 0
    /\ settingsLast = <<>>
    /\ createdUnder = 0
    /\ sentPrompt = <<>>
    /\ nSettings = 0

PartsIdle ==
    /\ ProviderIdle /\ PromptIdle /\ StoreIdle /\ SelectionIdle /\ FactoryIdle
    /\ SettingsIdle

\* the file system works
Init == faults = {} /\ Created /\ PartsIdle

\* the file system may fail at any operation
InitFaults == faults = {"save", "other"} /\ Created /\ PartsIdle

\* the write of the auto-save of a submission fails, nothing else does
InitSaveFaults == faults = {"submit"} /\ Created /\ PartsIdle

Spec == Init /\ [][Next]_vars

\* the goroutines are scheduled, and every call of the provider returns (every
\* step of a goroutine changes its entry of turns)
SpecLive ==
    /\ Init
    /\ [][Next]_vars
    /\ \A t \in TurnIds : WF_turns(SendQuery(t)) /\ WF_turns(handleStreamingResponse(t))

SpecFaults == InitFaults /\ [][Next]_vars

\* the turns of one session: no session is selected, made or deleted
NextTurns ==
    \/ Initialize
    \/ onSendButtonTapped
    \/ onCancelButtonTapped
    \/ \E t \in TurnIds : SendQuery(t)
    \/ \E t \in TurnIds : handleStreamingResponse(t)
    \/ refreshSessionsList

\* the write of a session operation may fail, nothing else does
InitOpFaults == faults = {"ops"} /\ Created /\ PartsIdle

SpecOpFaults == InitOpFaults /\ [][Next]_vars

\* the listing, the removal and the load of a session may fail, no write does
InitListFaults == faults = {"other"} /\ Created /\ PartsIdle

SpecListFaults == InitListFaults /\ [][Next]_vars

\* the sessions directories the application is started over: none, one or two
\* sessions of earlier runs, updated at different times or in the same second
StartStores ==
    { [i \in {} |-> OldStore[0]],
      [i \in {0} |-> OldStore[i]],
      [i \in {1} |-> OldStore[i]],
      OldStore,
      [i \in {0, 1} |-> [OldStore[i] EXCEPT !.updatedAt = 1]],
      [i \in {0, 1} |-> [OldStore[i] EXCEPT !.updatedAt = 1 - i]] }

\* the start over any of these directories; the listing, the removal, the
\* load and the writes of the session operations may fail
InitStart ==
    /\ faults = {"ops", "other"}
    /\ \E st \in StartStores : CreatedOver(st)
    /\ PartsIdle

\* the start and the session operations, without a turn
NextSessions ==
    \/ Initialize
    \/ onSessionSelected
    \/ onNewSessionTapped
    \/ deleteCurrentSession
    \/ refreshSessionsList

SpecStart == InitStart /\ [][NextSessions]_vars

\* the auto-save of every submission fails; the goroutines are scheduled and
\* every call of the provider returns
SpecSaveFaults ==
    /\ InitSaveFaults
    /\ [][NextTurns]_vars
    /\ \A t \in TurnIds : WF_turns(SendQuery(t)) /\ WF_turns(handleStreamingResponse(t))

\* ====================================================================
\* One call of OllamaProvider.SendQuery on a given response
\* ====================================================================
\* a line of the body that is not a JSON object
Malformed == [valid |-> FALSE, response |-> <<>>, done |-> FALSE, error |-> <<>>]

\* what the k-th frame of a body can be
FrameAt(k) ==
    {[valid |-> TRUE, response |-> r, done |-> d, error |-> e] :
        r \in {<<>>, Chunk(1, k)}, d \in BOOLEAN, e \in {<<>>, <<"boom">>}}
    \cup {Malformed}

Bodies ==
    UNION {{b \in [1..n -> UNION {FrameAt(k) : k \in 1..n}] :
               \A k \in 1..n : b[k] \in FrameAt(k)} : n \in 0..MaxBody}

\* httpClient.Do: a transport error, or a response with a status code
DoOutcomes ==
    {[err |-> TRUE, status |-> 0]}
    \cup {[err |-> FALSE, status |-> c] : c \in {200, 204, 404, 500}}

\* a status check that lets every response through
SendQueryErrorAnyStatus(outcome) ==
    IF outcome.err
    THEN Wrap("failed to send request", <<"network error">>)
    ELSE NoError

\* OllamaProvider.SendQuery: the error it returns before it reads the body
SendQueryError(outcome) ==
    IF outcome.err
    THEN Wrap("failed to send request", <<"network error">>)
    ELSE IF outcome.status # StatusOK
    THEN <<"unexpected status code">>
    ELSE NoError

\* an error field that is overlooked on a frame with the completion flag
FrameErrorUnlessDone(f) ==
    IF ~f.valid
    THEN Wrap("failed to decode response", <<"invalid character">>)
    ELSE IF f.error # <<>> /\ ~f.done
    THEN <<"ollama error">> \o f.error
    ELSE NoError

\* handleStreamingResponse: the error a frame ends the loop with
FrameError(f) ==
    IF ~f.valid
    THEN Wrap("failed to decode response", <<"invalid character">>)
    ELSE IF f.error # <<>>
    THEN <<"ollama error">> \o f.error
    ELSE NoError

\* a callback made for every frame
FrameUpdateAlways(f, newStream) ==
    <<[chunk |-> f.response, newStream |-> newStream]>>

\* handleStreamingResponse: the calls of onUpdate for a frame without error
FrameUpdate(f, newStream) ==
    IF f.response # <<>>
    THEN <<[chunk |-> f.response, newStream |-> newStream]>>
    ELSE <<>>

InitProvider ==
    /\ faults = {}
    /\ Created
    /\ PromptIdle
    /\ StoreIdle
    /\ SelectionIdle
    /\ FactoryIdle
    /\ SettingsIdle
    /\ doOutcome \in DoOutcomes
    /\ respBody \in Bodies
    /\ provPc = "call"
    /\ decoded = 0
    /\ provNewStream = TRUE
    /\ updates = <<>>
    /\ provErr = NoError

\* OllamaProvider.SendQuery up to the call of handleStreamingResponse
ProviderSendQuery ==
    /\ provPc = "call"
    /\ provErr' = SendQueryError(doOutcome)
    /\ provPc' = IF provErr' # NoError THEN "returned" ELSE "decode"
    /\ UNCHANGED <<doOutcome, respBody, decoded, provNewStream, updates>>
    /\ UNCHANGED <<uiVars, promptVars, storeVars, selVars, factoryVars, setVars>>

\* OllamaProvider.handleStreamingResponse: one iteration of the decode loop
ProviderDecode ==
    /\ provPc = "decode"
    /\ IF decoded = Len(respBody)
       THEN \* io.EOF: break, return nil
            /\ provPc' = "returned"
            /\ UNCHANGED <<decoded, provNewStream, updates, provErr>>
       ELSE LET f == respBody[decoded + 1]
            IN  /\ decoded' = decoded + 1
                /\ provErr' = FrameError(f)
                /\ IF provErr' # NoError
                   THEN /\ provPc' = "returned"
                        /\ UNCHANGED <<provNewStream, updates>>
                   ELSE /\ updates' = updates \o FrameUpdate(f, provNewStream)
                        /\ provNewStream' = (provNewStream /\ f.response = <<>>)
                        /\ provPc' = IF f.done THEN "returned" ELSE "decode"
    /\ UNCHANGED <<doOutcome, respBody>>
    /\ UNCHANGED <<uiVars, promptVars, storeVars, selVars, factoryVars, setVars>>

NextProvider ==
    \/ ProviderSendQuery
    \/ ProviderDecode

SpecProvider == InitProvider /\ [][NextProvider]_vars

\* ====================================================================
\* One prompt built by ChatUI.onSendButtonTapped for a given session
\* ====================================================================
HistoryText == <<"m1", "m2", "m3", "m4">>

\* the sessions a text is submitted in: k-th message with the k-th text
Histories ==
    UNION {{[k \in 1..n |-> NewChatMessage(who[k], <<HistoryText[k]>>)] :
               who \in [1..n -> {"user", "llm"}]} : n \in 0..MaxHistory}

Preamble == <<"You are a helpful assistant.\n\n">>

\* buildPromptWithHistory: the line written for a message
PromptLine(msg) ==
    <<IF msg.sender = "user" THEN "user: " ELSE "llm: ">> \o msg.content \o <<"\n">>

\* buildPromptWithHistory: the loop over messages[i..]
RECURSIVE PromptLines(_, _)
PromptLines(messages, i) ==
    IF i > Len(messages) THEN <<>>
    ELSE PromptLine(messages[i]) \o PromptLines(messages, i + 1)

\* a window of 0 or less that is taken for "no limit"
buildPromptWithHistoryUnlimited(messages, newUserMessage, maxMessages) ==
    LET start == IF maxMessages <= 0 \/ Len(messages) - maxMessages < 0 THEN 0
                 ELSE Len(messages) - maxMessages
    IN  Preamble \o PromptLines(messages, start + 1)
                 \o <<"user: ">> \o newUserMessage \o <<"\nllm:">>

\* ChatUI.buildPromptWithHistory, reading ui.currentSession.Messages
buildPromptWithHistory(messages, newUserMessage, maxMessages) ==
    LET start == IF Len(messages) - maxMessages < 0 THEN 0
                 ELSE Len(messages) - maxMessages
    IN  Preamble \o PromptLines(messages, start + 1)
                 \o <<"user: ">> \o newUserMessage \o <<"\nllm:">>

InitPrompt ==
    /\ faults = {}
    /\ Created
    /\ ProviderIdle
    /\ StoreIdle
    /\ SelectionIdle
    /\ FactoryIdle
    /\ SettingsIdle
    /\ \E h \in Histories, n \in (0 - 1)..MaxWindow :
          promptSession = [messages |-> h, maxMessages |-> n]
    /\ inputText \in {<<"q">>, <<"m1">>}
    /\ fullPrompt = <<>>

\* ChatUI.onSendButtonTapped: addMessageCard(query, true, true), then
\* buildPromptWithHistory(query, ui.currentSession.MaxMessages); inputText
\* keeps the text that was submitted
onSendButtonTappedPrompt ==
    /\ fullPrompt = <<>>
    /\ promptSession' =
          [promptSession EXCEPT !.messages =
              Append(@, NewChatMessage("user", inputText))]
    /\ fullPrompt' = buildPromptWithHistory(promptSession'.messages, inputText,
                                            promptSession'.maxMessages)
    /\ UNCHANGED inputText
    /\ UNCHANGED <<uiVars, provVars, storeVars, selVars, factoryVars, setVars>>

NextPrompt == onSendButtonTappedPrompt

SpecPrompt == InitPrompt /\ [][NextPrompt]_vars

\* ====================================================================
\* The file storage, taken alone: FileStorage on <basePath>
\* ====================================================================
\* A Go value and the JSON text written for it are different things: the
\* document has the members named by the json tags, and a time.Time is written
\* as an RFC 3339 string.
MarshalTime(t) == [rfc3339 |-> t]
UnmarshalTime(text) == text.rfc3339

\* json.Marshal and json.Unmarshal of models.ChatMessage
MarshalMessage(m) ==
    [sender |-> m.sender, content |-> m.content, timestamp |-> MarshalTime(m.timestamp)]
UnmarshalMessage(doc) ==
    [sender |-> doc.sender, content |-> doc.content,
     timestamp |-> UnmarshalTime(doc.timestamp)]

\* json.MarshalIndent of models.ChatSession
MarshalSession(session) ==
    [id |-> session.id, name |-> session.name,
     messages |-> [k \in 1..Len(session.messages) |-> MarshalMessage(session.messages[k])],
     created_at |-> MarshalTime(session.createdAt),
     updated_at |-> MarshalTime(session.updatedAt),
     model |-> session.model, provider |-> session.provider,
     max_messages |-> session.maxMessages, temperature |-> session.temperature]

\* json.Unmarshal into models.ChatSession
UnmarshalSession(doc) ==
    [id |-> doc.id, name |-> doc.name,
     messages |-> [k \in 1..Len(doc.messages) |-> UnmarshalMessage(doc.messages[k])],
     createdAt |-> UnmarshalTime(doc.created_at),
     updatedAt |-> UnmarshalTime(doc.updated_at),
     model |-> doc.model, provider |-> doc.provider,
     maxMessages |-> doc.max_messages, temperature |-> doc.temperature]

\* json.MarshalIndent of storage.AppPreferences
MarshalPreferences(p) ==
    [window_width |-> p.windowWidth, window_height |-> p.windowHeight,
     theme |-> p.theme, font_size |-> p.fontSize,
     max_history_length |-> p.maxHistoryLength, default_model |-> p.defaultModel,
     default_provider |-> p.defaultProvider,
     auto_save_history |-> p.autoSaveHistory, enable_markdown |-> p.enableMarkdown,
     show_timestamps |-> p.showTimestamps, max_context_length |-> p.maxContextLength,
     enable_tool_calling |-> p.enableToolCalling,
     enable_mcp_servers |-> p.enableMCPServers, enable_agents |-> p.enableAgents,
     log_level |-> p.logLevel]

\* json.Unmarshal into storage.AppPreferences
UnmarshalPreferences(doc) ==
    [windowWidth |-> doc.window_width, windowHeight |-> doc.window_height,
     theme |-> doc.theme, fontSize |-> doc.font_size,
     maxHistoryLength |-> doc.max_history_length, defaultModel |-> doc.default_model,
     defaultProvider |-> doc.default_provider,
     autoSaveHistory |-> doc.auto_save_history, enableMarkdown |-> doc.enable_markdown,
     showTimestamps |-> doc.show_timestamps, maxContextLength |-> doc.max_context_length,
     enableToolCalling |-> doc.enable_tool_calling,
     enableMCPServers |-> doc.enable_mcp_servers, enableAgents |-> doc.enable_agents,
     logLevel |-> doc.log_level]

\* storage.NewDefaultAppPreferences
NewDefaultAppPreferences ==
    [windowWidth |-> 600, windowHeight |-> 700, theme |-> "auto", fontSize |-> 12,
     maxHistoryLength |-> 100, defaultModel |-> "llama3.2:latest",
     defaultProvider |-> "ollama",
     autoSaveHistory |-> TRUE, enableMarkdown |-> TRUE, showTimestamps |-> FALSE,
     maxContextLength |-> 10, enableToolCalling |-> FALSE,
     enableMCPServers |-> FALSE, enableAgents |-> FALSE, logLevel |-> "info"]

\* os.WriteFile: the file is created or overwritten whole
WriteFile(dir, name, data) ==
    [n \in DOMAIN dir \cup {name} |-> IF n = name THEN data ELSE dir[n]]

\* the file written by FileStorage.SaveChatSession at time t, without the
\* refresh of UpdatedAt
SessionFileAsGiven(session, t) == MarshalSession(session)

\* the file written by FileStorage.SaveChatSession at time t: UpdatedAt is
\* set on the copy the function was given, then the copy is marshalled
SessionFile(session, t) == MarshalSession([session EXCEPT !.updatedAt = t])

\* a load that gives the zero session, and no error, for a missing file
LoadChatSessionLenient(dir, sessionID) ==
    IF sessionID \notin DOMAIN dir
    THEN [err |-> NoError, session |-> ZeroSession]
    ELSE [err |-> NoError, session |-> UnmarshalSession(dir[sessionID])]

\* FileStorage.LoadChatSession
LoadChatSession(dir, sessionID) ==
    IF sessionID \notin DOMAIN dir
    THEN [err |-> <<"session not found: ", sessionID>>, session |-> ZeroSession]
    ELSE [err |-> NoError, session |-> UnmarshalSession(dir[sessionID])]

\* FileStorage.ListChatSessions, its loop: every file of the directory that
\* LoadChatSession can load
LoadedSessions(dir) ==
    LET ids == {id \in DOMAIN dir : LoadChatSession(dir, id).err = NoError}
    IN  [id \in ids |-> LoadChatSession(dir, id).session]

\* a removal that reports success for a missing file
RemoveErrorNever(dir, sessionID) == NoError

\* FileStorage.DeleteChatSession, the error of os.Remove
RemoveError(dir, sessionID) ==
    IF sessionID \notin DOMAIN dir
    THEN <<"session not found: ", sessionID>>
    ELSE NoError

\* a load of the preferences that fails when there is no file
LoadAppPreferencesStrict(file) ==
    IF file = <<>>
    THEN [err |-> <<"failed to read preferences file">>, prefs |-> ZeroPreferences]
    ELSE [err |-> NoError, prefs |-> UnmarshalPreferences(file[1])]

\* FileStorage.LoadAppPreferences
LoadAppPreferences(file) ==
    IF file = <<>>
    THEN [err |-> NoError, prefs |-> NewDefaultAppPreferences]
    ELSE [err |-> NoError, prefs |-> UnmarshalPreferences(file[1])]

\* the session ids, message lists, models and preferences the calls are made with
StoreIds == {"s1", "s2"}

StoreMessages(t) ==
    { <<>>,
      << [sender |-> "user", content |-> <<"q">>, timestamp |-> 0],
         [sender |-> "llm", content |-> <<"a">>, timestamp |-> t] >> }

StoreSessions ==
    { [id |-> id, name |-> "New Chat", messages |-> m, createdAt |-> 0,
       updatedAt |-> u, model |-> md, provider |-> "ollama",
       maxMessages |-> 10, temperature |-> 7] :
         id \in StoreIds, m \in StoreMessages(fsNow), u \in 0..fsNow,
         md \in {"", "llama3.2:latest"} }

StorePreferences ==
    { [NewDefaultAppPreferences EXCEPT !.defaultModel = md, !.autoSaveHistory = a] :
         md \in {"llama3.2:latest", "mistral:latest"}, a \in BOOLEAN }

InitStore ==
    /\ faults = {}
    /\ Created
    /\ ProviderIdle
    /\ PromptIdle
    /\ SelectionIdle
    /\ FactoryIdle
    /\ SettingsIdle
    /\ files = NoFiles
    /\ prefsFile = <<>>
    /\ fsNow = 0
    /\ fsLast = NoCall
    /\ everSaved = {}

\* time passes between two storage calls
StoreTick ==
    /\ fsNow < MaxClock
    /\ fsNow' = fsNow + 1
    /\ UNCHANGED <<files, prefsFile, fsLast, everSaved>>
    /\ UNCHANGED <<uiVars, provVars, promptVars, selVars, factoryVars, setVars>>

\* a call of FileStorage.SaveChatSession
StoreSave ==
    /\ \E session \in StoreSessions :
         /\ files' = WriteFile(files, session.id, SessionFile(session, fsNow))
         /\ fsLast' = [NoCall EXCEPT !.op = "save", !.id = session.id,
                                     !.session = session]
         /\ everSaved' = everSaved \cup {session.id}
    /\ UNCHANGED <<prefsFile, fsNow>>
    /\ UNCHANGED <<uiVars, provVars, promptVars, selVars, factoryVars, setVars>>

\* a call of FileStorage.LoadChatSession
StoreLoad ==
    /\ \E id \in StoreIds :
         LET r == LoadChatSession(files, id)
         IN  fsLast' = [NoCall EXCEPT !.op = "load", !.id = id, !.err = r.err,
                                      !.session = r.session]
    /\ UNCHANGED <<files, prefsFile, fsNow, everSaved>>
    /\ UNCHANGED <<uiVars, provVars, promptVars, selVars, factoryVars, setVars>>

\* a call of FileStorage.ListChatSessions
StoreList ==
    /\ \E listed \in ListChatSessions(LoadedSessions(files)) :
         fsLast' = [NoCall EXCEPT !.op = "list", !.list = listed]
    /\ UNCHANGED <<files, prefsFile, fsNow, everSaved>>
    /\ UNCHANGED <<uiVars, provVars, promptVars, selVars, factoryVars, setVars>>

\* a call of FileStorage.DeleteChatSession
StoreDelete ==
    /\ \E id \in StoreIds :
         LET err == RemoveError(files, id) IN
         /\ files' = IF err = NoError THEN DeleteChatSession(files, id) ELSE files
         /\ fsLast' = [NoCall EXCEPT !.op = "delete", !.id = id, !.err = err]
         /\ everSaved' = IF err = NoError THEN everSaved \ {id} ELSE everSaved
    /\ UNCHANGED <<prefsFile, fsNow>>
    /\ UNCHANGED <<uiVars, provVars, promptVars, selVars, factoryVars, setVars>>

\* a call of FileStorage.SaveAppPreferences
StoreSavePreferences ==
    /\ \E prefs \in StorePreferences :
         /\ prefsFile' = <<MarshalPreferences(prefs)>>
         /\ fsLast' = [NoCall EXCEPT !.op = "savePrefs", !.prefs = prefs]
    /\ UNCHANGED <<files, fsNow, everSaved>>
    /\ UNCHANGED <<uiVars, provVars, promptVars, selVars, factoryVars, setVars>>

\* a call of FileStorage.LoadAppPreferences
StoreLoadPreferences ==
    /\ LET r == LoadAppPreferences(prefsFile)
       IN  fsLast' = [NoCall EXCEPT !.op = "loadPrefs", !.err = r.err,
                                    !.prefs = r.prefs]
    /\ UNCHANGED <<files, prefsFile, fsNow, everSaved>>
    /\ UNCHANGED <<uiVars, provVars, promptVars, selVars, factoryVars, setVars>>

NextStore ==
    \/ StoreTick
    \/ StoreSave
    \/ StoreLoad
    \/ StoreList
    \/ StoreDelete
    \/ StoreSavePreferences
    \/ StoreLoadPreferences

SpecStore == InitStore /\ [][NextStore]_vars

\* ====================================================================
\* The model selection, taken alone: the session's model, the global
\* default of the preferences and the selector of the main window
\* ====================================================================
\* the names GetModels gives: the options of the selectors
ModelNames == {"llama3.2:latest", "mistral:latest"}

DefaultModelName == "llama3.2:latest"

\* models.NewChatSessionWithConfig at time t, as createNewSessionWithDefaults
\* calls it: the id is the second of creation
NewChatSessionWithModel(t, model) ==
    [id |-> t, name |-> "New Chat", messages |-> <<>>, createdAt |-> t,
     updatedAt |-> t, model |-> model, provider |-> "ollama",
     maxMessages |-> 10, temperature |-> 7]

\* ChatSession.UpdateSessionSettings at time t
UpdateSessionSettings(cs, model, provider, maxMessages, temperature, t) ==
    [cs EXCEPT !.model = model, !.provider = provider,
               !.maxMessages = maxMessages, !.temperature = temperature,
               !.updatedAt = t]

\* widget.Select.SetSelected: a text that is not an option selects nothing
SetSelected(selected, text) == IF text \in ModelNames THEN text ELSE selected

\* ChatUI.loadGlobalModelPreference
loadGlobalModelPreference(file) ==
    LET globalModel == LoadAppPreferences(file).prefs.defaultModel
    IN  IF globalModel = "" THEN DefaultModelName ELSE globalModel

\* ChatUI.updateModelSelectionForSession (and the same choice made by
\* setupModelSelection)
updateModelSelectionForSession(selected, cs, file) ==
    IF cs.model # ""
    THEN SetSelected(selected, cs.model)
    ELSE SetSelected(selected, loadGlobalModelPreference(file))

\* the sessions directory left by earlier runs: a session made at time 0 and a
\* session made at time 1, which may have a model of its own
OldSessionFiles ==
    { [i \in {0, 1} |->
         MarshalSession([NewChatSessionWithModel(i, IF i = 1 THEN m ELSE "")
                            EXCEPT !.messages =
                               IF i = 0
                               THEN << [sender |-> "user", content |-> <<"q0">>,
                                        timestamp |-> 0] >>
                               ELSE <<>>])] :
      m \in ModelNames \cup {""} }

InitSelection ==
    /\ faults = {}
    /\ Created
    /\ ProviderIdle
    /\ PromptIdle
    /\ StoreIdle
    /\ FactoryIdle
    /\ SettingsIdle
    /\ wallClock = StartTime
    /\ sessionsDir \in OldSessionFiles \cup {NoFiles}
    /\ preferencesJson = <<>>
    /\ selSession = ZeroSession
    /\ modelSelect = ""
    /\ selectedModel = ""
    /\ selReady = FALSE
    /\ nChoices = 0

\* time.Now() in a handler of the model selection
ClockRead ==
    wallClock' \in {wallClock} \cup
                   (IF wallClock < StartTime + MaxClock THEN {wallClock + 1} ELSE {})

\* an event is taken from the event queue
Choice ==
    /\ selReady
    /\ nChoices < MaxChoices
    /\ nChoices' = nChoices + 1
    /\ UNCHANGED selReady

\* ChatUI.autoSaveCurrentSession at time t
autoSaveCurrentSession(dir, cs, t) == WriteFile(dir, cs.id, SessionFile(cs, t))

\* ChatUI.Initialize: loadAllSessions, loadCurrentSession, setupModelSelection
setupModelSelection ==
    /\ ~selReady
    /\ selReady' = TRUE
    /\ ClockRead
    /\ \E listed \in ListChatSessions(LoadedSessions(sessionsDir)) :
         IF Len(listed) > 0
         THEN /\ selSession' = listed[1]
              /\ UNCHANGED sessionsDir
         ELSE /\ selSession' = NewChatSessionWithModel(wallClock', "")
              /\ sessionsDir' = autoSaveCurrentSession(sessionsDir, selSession', wallClock')
    /\ modelSelect' = updateModelSelectionForSession(modelSelect, selSession', preferencesJson)
    /\ UNCHANGED <<preferencesJson, selectedModel, nChoices>>
    /\ UNCHANGED <<uiVars, provVars, promptVars, storeVars, factoryVars, setVars>>

\* ChatUI.onSendButtonTapped: the model of the selector goes to
\* sendMessageToLLM; addMessageCard appends the user message and saves
onSendButtonTappedModel ==
    /\ Choice
    /\ ClockRead
    /\ selectedModel' = modelSelect
    /\ selSession' = [selSession EXCEPT
                      !.messages = Append(@, [sender |-> "user", content |-> <<"q">>,
                                              timestamp |-> wallClock']),
                      !.updatedAt = wallClock']
    /\ sessionsDir' = autoSaveCurrentSession(sessionsDir, selSession', wallClock')
    /\ UNCHANGED <<preferencesJson, modelSelect>>
    /\ UNCHANGED <<uiVars, provVars, promptVars, storeVars, factoryVars, setVars>>

\* a choice in the selector of the main window: ChatUI.onModelSelect
onModelSelect ==
    /\ Choice
    /\ ClockRead
    /\ \E selected \in ModelNames :
         LET prefs == LoadAppPreferences(preferencesJson).prefs IN
         /\ modelSelect' = selected
         /\ preferencesJson' =
               <<MarshalPreferences([prefs EXCEPT !.defaultModel = selected])>>
         /\ selSession' = [selSession EXCEPT !.model = ""]
         /\ sessionsDir' = autoSaveCurrentSession(sessionsDir, selSession', wallClock')
    /\ UNCHANGED selectedModel
    /\ UNCHANGED <<uiVars, provVars, promptVars, storeVars, factoryVars, setVars>>

\* SettingsDialog.saveSettings, its session part: the selector of the dialog
\* shows the session's model, or nothing when the session has none
saveSettings ==
    /\ Choice
    /\ ClockRead
    /\ \E model \in ModelNames \cup (IF selSession.model = "" THEN {""} ELSE {}) :
         /\ selSession' = UpdateSessionSettings(selSession, model, "ollama",
                                             selSession.maxMessages,
                                             selSession.temperature, wallClock')
         /\ sessionsDir' = autoSaveCurrentSession(sessionsDir, selSession', wallClock')
         /\ modelSelect' = SetSelected(modelSelect, model)
    /\ UNCHANGED <<preferencesJson, selectedModel>>
    /\ UNCHANGED <<uiVars, provVars, promptVars, storeVars, factoryVars, setVars>>

\* ChatUI.onSessionSelected
onSessionSelectedModel ==
    /\ Choice
    /\ ClockRead
    /\ \E id \in DOMAIN sessionsDir \ {selSession.id} :
         LET saved == autoSaveCurrentSession(sessionsDir, selSession, wallClock')
         IN  /\ sessionsDir' = saved
             /\ selSession' = LoadChatSession(saved, id).session
    /\ modelSelect' = updateModelSelectionForSession(modelSelect, selSession', preferencesJson)
    /\ UNCHANGED <<preferencesJson, selectedModel>>
    /\ UNCHANGED <<uiVars, provVars, promptVars, storeVars, factoryVars, setVars>>

\* ChatUI.onNewSessionTapped: the selector is left as it is
onNewSessionTappedModel ==
    /\ Choice
    /\ ClockRead
    /\ LET saved == autoSaveCurrentSession(sessionsDir, selSession, wallClock')
       IN  /\ selSession' = NewChatSessionWithModel(wallClock', "")
           /\ sessionsDir' = autoSaveCurrentSession(saved, selSession', wallClock')
    /\ UNCHANGED <<preferencesJson, modelSelect, selectedModel>>
    /\ UNCHANGED <<uiVars, provVars, promptVars, storeVars, factoryVars, setVars>>

\* ChatUI.deleteCurrentSession: the selector is set only when the session
\* that becomes current has a model of its own
deleteCurrentSessionModel ==
    /\ Choice
    /\ ClockRead
    /\ selSession.id \in DOMAIN sessionsDir
    /\ LET deleted == DeleteChatSession(sessionsDir, selSession.id) IN
       \E listed \in ListChatSessions(LoadedSessions(deleted)) :
          IF Len(listed) = 0
          THEN /\ selSession' = NewChatSessionWithModel(wallClock', selSession.model)
               /\ sessionsDir' = autoSaveCurrentSession(deleted, selSession', wallClock')
          ELSE /\ selSession' = listed[1]
               /\ sessionsDir' = deleted
    /\ modelSelect' = IF selSession'.model # ""
                      THEN SetSelected(modelSelect, selSession'.model)
                      ELSE modelSelect
    /\ UNCHANGED <<preferencesJson, selectedModel>>
    /\ UNCHANGED <<uiVars, provVars, promptVars, storeVars, factoryVars, setVars>>

NextSelection ==
    \/ setupModelSelection
    \/ onSendButtonTappedModel
    \/ onModelSelect
    \/ saveSettings
    \/ onSessionSelectedModel
    \/ onNewSessionTappedModel
    \/ deleteCurrentSessionModel

SpecSelection == InitSelection /\ [][NextSelection]_vars

\* ====================================================================
\* The provider factory and App.SwitchProvider, taken alone
\* ====================================================================
NoProvider == [name |-> "", baseURL |-> ""]

\* NewOllamaProviderWithTimeout
NewOllamaProvider(baseURL) == [name |-> "ollama", baseURL |-> baseURL]

\* DefaultProviderFactory.createOllamaProvider and createOllamaFromConfig
createOllama(baseURL) ==
    IF baseURL = ""
    THEN [provider |-> NoProvider, err |-> <<"ollama base_url is required">>]
    ELSE [provider |-> NewOllamaProvider(baseURL), err |-> NoError]

\* DefaultProviderFactory.createOpenAIProvider and createOpenAIFromConfig
createOpenAI ==
    [provider |-> NoProvider, err |-> <<"openai provider not yet implemented">>]

\* an Eino provider that is handed out although it does nothing
createEinoHalfWired ==
    [provider |-> [name |-> "eino", baseURL |-> ""], err |-> NoError]

\* DefaultProviderFactory.createEinoProvider and createEinoFromConfig
createEino ==
    [provider |-> NoProvider, err |-> <<"eino provider not yet implemented">>]

\* DefaultProviderFactory.CreateProvider (baseURL is Settings["base_url"]) and
\* DefaultProviderFactory.CreateProviderFromConfig (baseURL is
\* config.LLM.Ollama.BaseURL)
CreateProvider(providerType, baseURL) ==
    CASE providerType = "ollama" -> createOllama(baseURL)
      [] providerType = "openai" -> createOpenAI
      [] providerType = "eino" -> createEino
      [] OTHER -> [provider |-> NoProvider,
                   err |-> <<"unsupported provider type: ", providerType>>]

\* DefaultProviderFactory.ValidateProviderConfig
ValidateProviderConfig(cfg, providerType) ==
    CASE providerType = "ollama" ->
            IF cfg.ollamaBaseURL = "" THEN <<"ollama base_url is required">>
            ELSE NoError
      [] providerType = "openai" ->
            IF cfg.openaiAPIKey = "" THEN <<"openai api_key is required">>
            ELSE NoError
      [] providerType = "eino" -> NoError
      [] OTHER -> <<"unknown provider type: ", providerType>>

\* ChatUI.UpdateProvider: the type shown is guessed from the provider's name
UpdateProvider(chat, newProvider) ==
    [provider |-> newProvider,
     currentProviderType |->
        IF newProvider.name \in {"ollama", "openai", "eino"}
        THEN newProvider.name ELSE chat.currentProviderType]

\* the provider types and base URLs the calls are made with
ProviderTypes == {"ollama", "openai", "eino", "anthropic", ""}
BaseURLs == {"http://localhost:11434", "http://remote:11434"}

\* App.New has made the Ollama provider of the configuration
InitFactory ==
    /\ faults = {}
    /\ Created
    /\ ProviderIdle
    /\ PromptIdle
    /\ StoreIdle
    /\ SelectionIdle
    /\ SettingsIdle
    /\ \E url \in BaseURLs, key \in {"", "sk-1"} :
         /\ llmConfig = [provider |-> "ollama", ollamaBaseURL |-> url,
                         openaiAPIKey |-> key]
         /\ appProvider = NewOllamaProvider(url)
         /\ chatProvider = [provider |-> NewOllamaProvider(url),
                            currentProviderType |-> "ollama"]
    /\ factoryLast = [op |-> "none", providerType |-> "", provider |-> NoProvider,
                      err |-> NoError]
    /\ nCalls = 0

\* a call of DefaultProviderFactory.CreateProvider
FactoryCreateProvider ==
    /\ nCalls < MaxCalls
    /\ nCalls' = nCalls + 1
    /\ \E providerType \in ProviderTypes, url \in BaseURLs \cup {""} :
         LET r == CreateProvider(providerType, url)
         IN  factoryLast' = [op |-> "create", providerType |-> providerType,
                             provider |-> r.provider, err |-> r.err]
    /\ UNCHANGED <<llmConfig, appProvider, chatProvider>>
    /\ UNCHANGED <<uiVars, provVars, promptVars, storeVars, selVars, setVars>>

\* a call of DefaultProviderFactory.CreateProviderFromConfig
FactoryCreateProviderFromConfig ==
    /\ nCalls < MaxCalls
    /\ nCalls' = nCalls + 1
    /\ \E providerType \in ProviderTypes :
         LET r == CreateProvider(providerType, llmConfig.ollamaBaseURL)
         IN  factoryLast' = [op |-> "createFromConfig", providerType |-> providerType,
                             provider |-> r.provider, err |-> r.err]
    /\ UNCHANGED <<llmConfig, appProvider, chatProvider>>
    /\ UNCHANGED <<uiVars, provVars, promptVars, storeVars, selVars, setVars>>

\* a call of App.SwitchProvider
SwitchProvider ==
    /\ nCalls < MaxCalls
    /\ nCalls' = nCalls + 1
    /\ \E providerType \in ProviderTypes :
         LET invalid == ValidateProviderConfig(llmConfig, providerType)
             r == CreateProvider(providerType, llmConfig.ollamaBaseURL)
         IN  IF invalid # NoError
             THEN /\ factoryLast' =
                        [op |-> "switch", providerType |-> providerType,
                         provider |-> NoProvider,
                         err |-> Wrap("provider configuration validation failed", invalid)]
                  /\ UNCHANGED <<llmConfig, appProvider, chatProvider>>
             ELSE IF r.err # NoError
             THEN /\ factoryLast' =
                        [op |-> "switch", providerType |-> providerType,
                         provider |-> NoProvider,
                         err |-> Wrap("failed to create provider", r.err)]
                  /\ UNCHANGED <<llmConfig, appProvider, chatProvider>>
             ELSE /\ factoryLast' =
                        [op |-> "switch", providerType |-> providerType,
                         provider |-> r.provider, err |-> NoError]
                  /\ appProvider' = r.provider
                  /\ llmConfig' = [llmConfig EXCEPT !.provider = providerType]
                  /\ chatProvider' = UpdateProvider(chatProvider, r.provider)
    /\ UNCHANGED <<uiVars, provVars, promptVars, storeVars, selVars, setVars>>

NextFactory ==
    \/ FactoryCreateProvider
    \/ FactoryCreateProviderFromConfig
    \/ SwitchProvider

SpecFactory == InitFactory /\ [][NextFactory]_vars

\* ====================================================================
\* The settings dialog, the configuration file and the session defaults
\* ====================================================================
DefaultProvider == "ollama"
DefaultMaxMessages == 10
DefaultWindowWidth == 800
DefaultWindowHeight == 700
DefaultFontSize == 12
DefaultSidebarWidth == 200

\* temperatures are counted in hundredths: DefaultTemperature = 0.7
DefaultTemperature == 70
MinTemperature == 0
MaxTemperature == 200

\* A text is the sequence of its characters.
Digits == <<"0", "1", "2", "3", "4", "5", "6", "7", "8", "9">>

IsDigit(c) == \E i \in 1..10 : Digits[i] = c

DigitValue(c) == (CHOOSE i \in 1..10 : Digits[i] = c) - 1

AllDigits(text) == text # <<>> /\ \A i \in 1..Len(text) : IsDigit(text[i])

RECURSIVE DigitsValue(_)
DigitsValue(text) ==
    IF text = <<>> THEN 0
    ELSE 10 * DigitsValue(SubSeq(text, 1, Len(text) - 1)) + DigitValue(text[Len(text)])

RECURSIVE TrimLeft(_)
TrimLeft(text) ==
    IF text # <<>> /\ Head(text) = " " THEN TrimLeft(Tail(text)) ELSE text

RECURSIVE TrimRight(_)
TrimRight(text) ==
    IF text # <<>> /\ text[Len(text)] = " "
    THEN TrimRight(SubSeq(text, 1, Len(text) - 1)) ELSE text

\* strings.TrimSpace
TrimSpace(text) == TrimRight(TrimLeft(text))

\* strconv.Atoi: an optional sign, then decimal digits
Atoi(text) ==
    LET signed == text # <<>> /\ Head(text) \in {"+", "-"}
        digits == IF signed THEN Tail(text) ELSE text
    IN  IF AllDigits(digits)
        THEN [num |-> IF signed /\ Head(text) = "-"
                      THEN 0 - DigitsValue(digits) ELSE DigitsValue(digits),
              ok |-> TRUE]
        ELSE [num |-> 0, ok |-> FALSE]

RECURSIVE NatText(_)
NatText(n) ==
    IF n < 10 THEN <<Digits[n + 1]>>
    ELSE NatText(n \div 10) \o <<Digits[(n % 10) + 1]>>

\* strconv.Itoa
Itoa(n) == IF n < 0 THEN <<"-">> \o NatText(0 - n) ELSE NatText(n)

\* strconv.ParseFloat for a text in decimal notation with at most two
\* decimals: the value in hundredths
ParseFloat(text) ==
    LET signed == text # <<>> /\ Head(text) \in {"+", "-"}
        body == IF signed THEN Tail(text) ELSE text
        dots == {i \in 1..Len(body) : body[i] = "."}
        p == IF dots = {} THEN Len(body) + 1 ELSE CHOOSE i \in dots : TRUE
        whole == SubSeq(body, 1, p - 1)
        frac == SubSeq(body, p + 1, Len(body))
        ok == /\ Cardinality(dots) <= 1
              /\ whole \o frac # <<>>
              /\ \A i \in 1..Len(whole) : IsDigit(whole[i])
              /\ \A i \in 1..Len(frac) : IsDigit(frac[i])
              /\ Len(frac) <= 2
        abs == 100 * DigitsValue(whole)
                 + (IF Len(frac) = 1 THEN 10 ELSE 1) * DigitsValue(frac)
    IN  IF ok
        THEN [num |-> IF signed /\ Head(text) = "-" THEN 0 - abs ELSE abs, ok |-> TRUE]
        ELSE [num |-> 0, ok |-> FALSE]

\* fmt.Sprintf("%.2f", x) of a temperature that is not negative
FormatFloat2(x) ==
    NatText(x \div 100) \o <<".">> \o <<Digits[((x \div 10) % 10) + 1]>>
                        \o <<Digits[(x % 10) + 1]>>

\* validation.ValidatePositiveInt
ValidatePositiveInt(value, fieldName) ==
    LET r == Atoi(TrimSpace(value))
    IN  IF ~r.ok \/ r.num <= 0
        THEN [num |-> 0, err |-> <<fieldName, "must be a positive number">>]
        ELSE [num |-> r.num, err |-> NoError]

\* validation.ValidateNonNegativeInt
ValidateNonNegativeInt(value, fieldName) ==
    LET r == Atoi(TrimSpace(value))
    IN  IF ~r.ok \/ r.num < 0
        THEN [num |-> 0, err |-> <<fieldName, "must be a non-negative number">>]
        ELSE [num |-> r.num, err |-> NoError]

\* validation.ValidateFloat
ValidateFloat(value, fieldName, min, max) ==
    LET r == ParseFloat(TrimSpace(value))
    IN  IF ~r.ok \/ r.num < min \/ r.num > max
        THEN [num |-> 0, err |-> <<fieldName, "must be a number between">>]
        ELSE [num |-> r.num, err |-> NoError]

\* validation.ValidateUIValues
ValidateUIValues(windowWidth, windowHeight, maxMessages, fontSize, sidebarWidth) ==
    IF windowWidth <= 0 THEN <<"window width must be positive">>
    ELSE IF windowHeight <= 0 THEN <<"window height must be positive">>
    ELSE IF maxMessages < 0
    THEN <<"max messages must be non-negative (0 to disable context)">>
    ELSE IF fontSize <= 0 THEN <<"font size must be positive">>
    ELSE IF sidebarWidth <= 0 THEN <<"sidebar width must be positive">>
    ELSE NoError

\* Config.ValidateUIConfig
ValidateUIConfig(c) ==
    LET err == ValidateUIValues(c.ui.windowWidth, c.ui.windowHeight,
                                c.ui.maxMessages, c.ui.fontSize, c.ui.sidebarWidth)
    IN  IF err # NoError THEN err
        ELSE IF c.ui.theme \notin {"light", "dark", "auto"}
        THEN <<"ui.theme must be one of">>
        ELSE NoError

\* Config.ValidateLLMConfig
ValidateLLMConfig(c) ==
    IF c.llm.provider = "" THEN <<"llm.provider cannot be empty">>
    ELSE IF \A i \in 1..Len(c.llm.availableProviders) :
                c.llm.availableProviders[i] # c.llm.provider
    THEN <<"current provider", c.llm.provider, "not found in available_providers">>
    ELSE IF c.llm.provider = "ollama"
    THEN IF c.llm.ollama.baseURL = "" THEN <<"ollama.base_url cannot be empty">>
         ELSE IF c.llm.ollama.defaultModel = ""
         THEN <<"ollama.default_model cannot be empty">>
         ELSE NoError
    ELSE IF c.llm.provider = "openai"
    THEN IF c.llm.openai.baseURL = "" THEN <<"openai.base_url cannot be empty">>
         ELSE IF c.llm.openai.defaultModel = ""
         THEN <<"openai.default_model cannot be empty">>
         ELSE NoError
    ELSE IF c.llm.provider = "eino"
    THEN IF c.llm.eino.defaultModel = ""
         THEN <<"eino.default_model cannot be empty">>
         ELSE NoError
    ELSE <<"unsupported provider", c.llm.provider>>

\* Config.ValidateConfig
ValidateConfig(c) ==
    IF c.app.name = "" THEN <<"app.name cannot be empty">>
    ELSE IF c.app.version = "" THEN <<"app.version cannot be empty">>
    ELSE IF ValidateLLMConfig(c) # NoError
    THEN Wrap("LLM config validation failed", ValidateLLMConfig(c))
    ELSE IF ValidateUIConfig(c) # NoError
    THEN Wrap("UI config validation failed", ValidateUIConfig(c))
    ELSE NoError

\* the Config that createDefaultConfig marshals
DefaultConfig ==
    [app |-> [name |-> "OllamaChat", version |-> "1.0.0"],
     llm |-> [provider |-> DefaultProvider,
              availableProviders |-> <<>>,
              ollama |-> [baseURL |-> "http://localhost:11434",
                          defaultModel |-> "llama3.2:latest"],
              openai |-> [baseURL |-> "https://api.openai.com/v1",
                          defaultModel |-> "gpt-3.5-turbo"],
              eino |-> [defaultModel |-> "llama3.2:latest"]],
     ui |-> [windowWidth |-> DefaultWindowWidth,
             windowHeight |-> DefaultWindowHeight,
             maxMessages |-> DefaultMaxMessages,
             theme |-> "auto",
             fontSize |-> DefaultFontSize,
             showTimestamps |-> FALSE,
             sidebarWidth |-> DefaultSidebarWidth]]

\* yaml.Marshal of a Config: the keys are the yaml tags of the fields
MarshalConfig(c) ==
    [app |-> [name |-> c.app.name, version |-> c.app.version],
     llm |-> [provider |-> c.llm.provider,
              available_providers |-> c.llm.availableProviders,
              ollama |-> [base_url |-> c.llm.ollama.baseURL,
                          default_model |-> c.llm.ollama.defaultModel],
              openai |-> [base_url |-> c.llm.openai.baseURL,
                          default_model |-> c.llm.openai.defaultModel],
              eino |-> [default_model |-> c.llm.eino.defaultModel]],
     ui |-> [window_width |-> c.ui.windowWidth,
             window_height |-> c.ui.windowHeight,
             max_messages |-> c.ui.maxMessages,
             theme |-> c.ui.theme,
             font_size |-> c.ui.fontSize,
             show_timestamps |-> c.ui.showTimestamps,
             sidebar_width |-> c.ui.sidebarWidth]]

\* yaml.Unmarshal into a Config
UnmarshalConfig(doc) ==
    [app |-> [name |-> doc.app.name, version |-> doc.app.version],
     llm |-> [provider |-> doc.llm.provider,
              availableProviders |-> doc.llm.available_providers,
              ollama |-> [baseURL |-> doc.llm.ollama.base_url,
                          defaultModel |-> doc.llm.ollama.default_model],
              openai |-> [baseURL |-> doc.llm.openai.base_url,
                          defaultModel |-> doc.llm.openai.default_model],
              eino |-> [defaultModel |-> doc.llm.eino.default_model]],
     ui |-> [windowWidth |-> doc.ui.window_width,
             windowHeight |-> doc.ui.window_height,
             maxMessages |-> doc.ui.max_messages,
             theme |-> doc.ui.theme,
             fontSize |-> doc.ui.font_size,
             showTimestamps |-> doc.ui.show_timestamps,
             sidebarWidth |-> doc.ui.sidebar_width]]

\* the configuration file of the README: the default values with the
\* current provider listed in available_providers
ReadmeConfigYaml ==
    MarshalConfig([DefaultConfig EXCEPT !.llm.availableProviders = <<"ollama">>])

\* config.LoadConfig, with createDefaultConfig when there is no file: the
\* file after the call and the Config read from it
LoadConfig(file) ==
    LET written == IF file = <<>> THEN <<MarshalConfig(DefaultConfig)>> ELSE file
    IN  [file |-> written, config |-> UnmarshalConfig(written[1])]

\* models.NewChatSessionWithConfig at time t, with every field
NewChatSessionWithSettings(t, model, maxMessages, temperature) ==
    [id |-> t, name |-> "Session", messages |-> <<>>, createdAt |-> t,
     updatedAt |-> t, model |-> model, provider |-> "ollama",
     maxMessages |-> maxMessages, temperature |-> temperature]

\* ChatUI.createNewSessionWithDefaults, reading ui.config.UI.MaxMessages
createNewSessionWithConfigDefaults(c, t, model) ==
    LET maxMessages == IF c.ui.maxMessages <= 0 THEN DefaultMaxMessages
                       ELSE c.ui.maxMessages
    IN  NewChatSessionWithSettings(t, model, maxMessages, DefaultTemperature)

\* the text entries of the dialog
Fields == {"windowWidth", "windowHeight", "maxMessages", "fontSize",
           "sidebarWidth", "sessionMaxMessages", "temperature"}

\* SettingsDialog.populateCurrentValues: the texts the dialog opens with
populateCurrentValues(c, session) ==
    [f \in Fields |->
        CASE f = "windowWidth" -> Itoa(c.ui.windowWidth)
          [] f = "windowHeight" -> Itoa(c.ui.windowHeight)
          [] f = "maxMessages" -> Itoa(c.ui.maxMessages)
          [] f = "fontSize" -> Itoa(c.ui.fontSize)
          [] f = "sidebarWidth" -> Itoa(c.ui.sidebarWidth)
          [] f = "sessionMaxMessages" -> Itoa(session.maxMessages)
          [] f = "temperature" -> FormatFloat2(session.temperature)]

\* the texts the user types into an entry
Typed(f) ==
    CASE f = "windowWidth" -> {<<"6", "4", "0">>, <<"0">>}
      [] f = "windowHeight" -> {<<>>}
      [] f = "maxMessages" -> {<<"0">>, <<" ", "5", " ">>, <<"-", "1">>}
      [] f = "fontSize" -> {<<"1", "4">>}
      [] f = "sidebarWidth" -> {<<"x">>}
      [] f = "sessionMaxMessages" -> {<<"0">>, <<"3">>}
      [] f = "temperature" -> {<<"1", ".", "5">>, <<"2", ".", "5", "0">>,
                               <<"h", "o", "t">>}

\* the entries when Save is tapped: the user has changed at most MaxEdits of
\* the texts the dialog opened with
Entered(c, session) ==
    LET opened == populateCurrentValues(c, session)
    IN  { [f \in Fields |-> IF f \in DOMAIN typed THEN typed[f] ELSE opened[f]] :
             typed \in UNION { { t \in [edited -> UNION {Typed(f) : f \in Fields}] :
                                   \A f \in edited : t[f] \in Typed(f) } :
                               edited \in { e \in SUBSET Fields :
                                              Cardinality(e) <= MaxEdits } } }

\* SettingsDialog.parseAndValidateFields: the values, or the first error
parseAndValidateFields(texts) ==
    LET windowWidth == ValidatePositiveInt(texts["windowWidth"], "window width")
        windowHeight == ValidatePositiveInt(texts["windowHeight"], "window height")
        maxMessages == ValidateNonNegativeInt(texts["maxMessages"], "max messages")
        fontSize == ValidatePositiveInt(texts["fontSize"], "font size")
        sidebarWidth == ValidatePositiveInt(texts["sidebarWidth"], "sidebar width")
        sessionMaxMessages ==
            ValidateNonNegativeInt(texts["sessionMaxMessages"], "session max messages")
        temperature == ValidateFloat(texts["temperature"], "temperature",
                                     MinTemperature, MaxTemperature)
        values == [windowWidth |-> windowWidth.num,
                   windowHeight |-> windowHeight.num,
                   maxMessages |-> maxMessages.num,
                   fontSize |-> fontSize.num,
                   sidebarWidth |-> sidebarWidth.num,
                   sessionMaxMessages |-> sessionMaxMessages.num,
                   temperature |-> temperature.num]
        err == IF windowWidth.err # NoError THEN windowWidth.err
               ELSE IF windowHeight.err # NoError THEN windowHeight.err
               ELSE IF maxMessages.err # NoError
               THEN <<"max messages must be a non-negative number (0 to disable context)">>
               ELSE IF fontSize.err # NoError THEN fontSize.err
               ELSE IF sidebarWidth.err # NoError THEN sidebarWidth.err
               ELSE IF sessionMaxMessages.err # NoError
               THEN <<"session max messages must be a non-negative number (0 to disable context)">>
               ELSE temperature.err
    IN  [values |-> values, err |-> err]

\* the sessions directory left by an earlier run: one session with a
\* completed turn
OldSettingsDir ==
    [i \in {0} |->
        MarshalSession([NewChatSessionWithSettings(0, "", DefaultMaxMessages,
                                                   DefaultTemperature)
                           EXCEPT !.messages =
                              << [sender |-> "user", content |-> <<"q0">>,
                                  timestamp |-> 0],
                                 [sender |-> "llm", content |-> <<"a0">>,
                                  timestamp |-> 0] >>])]

\* no call of saveSettings has been made
NoSettingsCall == [op |-> "none", err |-> NoError]

\* before app.New: there is no configuration file (first run) or the one of
\* the README; file writes may fail
InitSettings ==
    /\ faults = {"save"}
    /\ Created
    /\ ProviderIdle
    /\ PromptIdle
    /\ StoreIdle
    /\ SelectionIdle
    /\ FactoryIdle
    /\ config = <<>>
    /\ configYaml \in {<<>>, <<ReadmeConfigYaml>>}
    /\ firstRun = FALSE
    /\ setSession = <<>>
    /\ setDir \in {NoFiles, OldSettingsDir}
    /\ setClock = StartTime
    /\ settingsLast = NoSettingsCall
    /\ createdUnder = 0 - 1
    /\ sentPrompt = <<>>
    /\ nSettings = 0

\* time.Now() in a handler
SettingsClockRead ==
    setClock' \in {setClock} \cup
                  (IF setClock < StartTime + MaxSeconds THEN {setClock + 1} ELSE {})

\* an event is taken from the event queue
SettingsEvent ==
    /\ config # <<>>
    /\ nSettings < MaxSettings
    /\ nSettings' = nSettings + 1
    /\ UNCHANGED firstRun

\* ChatUI.saveCurrentSession at time t: the directory after the call and
\* whether the write succeeded
saveCurrentSessionFile(ok, dir, cs, t) ==
    IF ok THEN WriteFile(dir, cs.id, SessionFile(cs, t)) ELSE dir

\* app.New: LoadConfig, then ChatUI.Initialize with loadAllSessions and
\* loadCurrentSession
AppNew ==
    /\ config = <<>>
    /\ LET loaded == LoadConfig(configYaml) IN
       /\ configYaml' = loaded.file
       /\ config' = loaded.config
       /\ firstRun' = (configYaml = <<>>)
       /\ SettingsClockRead
       /\ \E listed \in ListChatSessions(LoadedSessions(setDir)) :
            IF Len(listed) > 0
            THEN /\ setSession' = listed[1]
                 /\ createdUnder' = 0 - 1
                 /\ UNCHANGED setDir
            ELSE /\ setSession' =
                       createNewSessionWithConfigDefaults(loaded.config, setClock', "")
                 /\ createdUnder' = loaded.config.ui.maxMessages
                 /\ \E ok \in Outcomes :
                       setDir' = saveCurrentSessionFile(ok, setDir, setSession', setClock')
    /\ UNCHANGED <<settingsLast, sentPrompt, nSettings>>
    /\ UNCHANGED <<uiVars, provVars, promptVars, storeVars, selVars, factoryVars>>

\* SettingsDialog.saveSettings, called by the Save button of the dialog that
\* onSettingsButtonTapped opened on ui.config and &ui.currentSession
SettingsDialogSaveSettings ==
    /\ SettingsEvent
    /\ SettingsClockRead
    /\ \E texts \in Entered(config, setSession),
          checked \in BOOLEAN,
          selected \in {setSession.model, "mistral:latest"} :
         \E parsed \in {parseAndValidateFields(texts)} :
         \E values \in {parsed.values} :
         \E updated \in {[config EXCEPT !.ui.windowWidth = values.windowWidth,
                                       !.ui.windowHeight = values.windowHeight,
                                       !.ui.maxMessages = values.maxMessages,
                                       !.ui.fontSize = values.fontSize,
                                       !.ui.sidebarWidth = values.sidebarWidth,
                                       !.ui.showTimestamps = checked]} :
         \E invalid \in {ValidateConfig(updated)} :
         \E session \in {UpdateSessionSettings(setSession, selected, DefaultProvider,
                            values.sessionMaxMessages, values.temperature, setClock')} :
         LET changes == Cardinality({f \in Fields :
                            texts[f] # populateCurrentValues(config, setSession)[f]})
                        + (IF checked # config.ui.showTimestamps THEN 1 ELSE 0)
                        + (IF selected # setSession.model THEN 1 ELSE 0)
         IN  /\ changes <= MaxEdits
             /\ IF parsed.err # NoError
                THEN /\ settingsLast' = [op |-> "save", err |-> parsed.err]
                     /\ UNCHANGED <<config, configYaml, setSession, setDir,
                                    createdUnder>>
                ELSE IF invalid # NoError
                THEN /\ config' = updated
                     /\ settingsLast' =
                           [op |-> "save",
                            err |-> Wrap("configuration validation failed", invalid)]
                     /\ UNCHANGED <<configYaml, setSession, setDir, createdUnder>>
                ELSE \E configWritten \in Outcomes :
                     IF ~configWritten
                     THEN /\ config' = updated
                          /\ settingsLast' =
                                [op |-> "save",
                                 err |-> <<"failed to save configuration to file">>]
                          /\ UNCHANGED <<configYaml, setSession, setDir,
                                         createdUnder>>
                     ELSE \E sessionWritten \in Outcomes :
                          /\ config' = updated
                          /\ configYaml' = <<MarshalConfig(updated)>>
                          /\ setSession' = session
                          /\ createdUnder' = 0 - 1
                          /\ setDir' = saveCurrentSessionFile(sessionWritten, setDir,
                                                              session, setClock')
                          /\ settingsLast' =
                                [op |-> "save",
                                 err |-> IF sessionWritten THEN NoError
                                         ELSE <<"failed to save session">>]
    /\ UNCHANGED sentPrompt
    /\ UNCHANGED <<uiVars, provVars, promptVars, storeVars, selVars, factoryVars>>

\* ChatUI.onNewSessionTapped
onNewSessionTappedSettings ==
    /\ SettingsEvent
    /\ SettingsClockRead
    /\ \E ok \in Outcomes :
         IF ~ok
         THEN UNCHANGED <<setSession, setDir, createdUnder, sentPrompt>>
         ELSE LET newSession ==
                      createNewSessionWithConfigDefaults(config, setClock', "")
                  saved == saveCurrentSessionFile(TRUE, setDir, setSession, setClock')
              IN  /\ setSession' = newSession
                  /\ createdUnder' = config.ui.maxMessages
                  /\ sentPrompt' = <<>>
                  /\ \E ok2 \in Outcomes :
                        setDir' = saveCurrentSessionFile(ok2, saved, newSession,
                                                         setClock')
    /\ UNCHANGED <<config, configYaml, settingsLast>>
    /\ UNCHANGED <<uiVars, provVars, promptVars, storeVars, selVars, factoryVars>>

\* ChatUI.onSendButtonTapped: addMessageCard(query, true, true) appends the
\* user message and saves, then the prompt is built with the session's window
onSendButtonTappedSettings ==
    /\ SettingsEvent
    /\ SettingsClockRead
    /\ setSession' = [setSession EXCEPT
                         !.messages = Append(@, [sender |-> "user",
                                                 content |-> <<"q">>,
                                                 timestamp |-> setClock']),
                         !.updatedAt = setClock']
    /\ \E ok \in Outcomes :
          setDir' = saveCurrentSessionFile(ok, setDir, setSession', setClock')
    /\ sentPrompt' = buildPromptWithHistory(setSession'.messages, <<"q">>,
                                            setSession'.maxMessages)
    /\ UNCHANGED <<config, configYaml, settingsLast, createdUnder>>
    /\ UNCHANGED <<uiVars, provVars, promptVars, storeVars, selVars, factoryVars>>

NextSettings ==
    \/ AppNew
    \/ SettingsDialogSaveSettings
    \/ onNewSessionTappedSettings
    \/ onSendButtonTappedSettings

SpecSettings == InitSettings /\ [][NextSettings]_vars

\* ====================================================================
\* Properties
\* ====================================================================
Running(t) == turns[t].pc \in {"start", "stream"}

\* the step is one of goroutine t (a UI event changes nEvents or nTurns)
GoroutineStep(t) ==
    /\ Running(t)
    /\ nEvents' = nEvents
    /\ nTurns' = nTurns
    /\ turns'[t] # turns[t]

\* goroutine t ends in this step
Returns(t) == GoroutineStep(t) /\ turns'[t].pc = "done"

IsPrefix(p, q) == Len(p) <= Len(q) /\ SubSeq(q, 1, Len(p)) = p

Last(q) == q[Len(q)]

\* C1: at most one turn is in flight: no state has two sendMessageToLLM
\* goroutines that have not yet returned.
C1_AtMostOneTurnInFlight ==
    Cardinality({t \in TurnIds : Running(t)}) <= 1

\* C2: a step of a streaming turn that changes the messages of the current
\* session changes the session the turn was submitted in.
C2_TurnWritesOwnSession ==
    [][\A t \in TurnIds :
          (GoroutineStep(t) /\ currentSession'.messages # currentSession.messages)
             => currentSession.id = turns[t].session]_vars

\* the messages of session id: the session in memory when it is the current
\* one, else its stored record
MessagesOf(id) ==
    IF currentSession.id = id THEN currentSession.messages
    ELSE IF id \in DOMAIN store THEN store[id].messages
    ELSE <<>>

\* C3: while a turn streams and its session has not been deleted, the session
\* holds an assistant message whose content is the concatenation, in delivery
\* order, of the chunks delivered so far in that turn.
C3_ContentIsDeliveredChunks ==
    \A t \in TurnIds :
       (/\ turns[t].pc = "stream"
        /\ turns[t].delivered # <<>>
        /\ (currentSession.id = turns[t].session \/ turns[t].session \in DOMAIN store))
       => \E k \in 1..Len(MessagesOf(turns[t].session)) :
             /\ MessagesOf(turns[t].session)[k].sender = "llm"
             /\ MessagesOf(turns[t].session)[k].content = turns[t].delivered

\* C4: the first chunk of a turn appends one assistant message directly after
\* the turn's user message, in the turn's session.
C4_FirstChunkAfterUserMessage ==
    [][\A t \in TurnIds :
          (GoroutineStep(t) /\ turns[t].newStream /\ ~turns'[t].newStream) =>
             /\ currentSession.id = turns[t].session
             /\ Len(currentSession.messages) > 0
             /\ Last(currentSession.messages).sender = "user"
             /\ Len(currentSession'.messages) = Len(currentSession.messages) + 1
             /\ Last(currentSession'.messages).sender = "llm"]_vars

\* C5: an accepted submission appends the user message to the session and
\* attempts a save of the session containing it, in the same handler that
\* starts the goroutine: the provider has not been invoked yet, and unless
\* the write failed the stored record already holds the user message.
C5_UserMessageSavedBeforeProvider ==
    [][nTurns' # nTurns =>
          /\ \E query \in UserTexts :
                currentSession'.messages =
                   Append(currentSession.messages, NewChatMessage("user", query))
          /\ lastSave'.id = currentSession'.id
          /\ lastSave'.ok =>
                /\ currentSession'.id \in DOMAIN store'
                /\ store'[currentSession'.id].messages = currentSession'.messages
          /\ turns'[nTurns'].pc = "start"]_vars

C5_Witness ==
    /\ nTurns = 1
    /\ turns[1].pc = "start"
    /\ currentSession.id \in DOMAIN store
    /\ Len(currentSession.messages) > 0
    /\ Last(currentSession.messages) = NewChatMessage("user", <<"q">>)
    /\ store[currentSession.id].messages = currentSession.messages

\* C6: when the streaming operation has returned and the final save did not
\* fail, the stored record of the turn's session (if it still exists) holds
\* the user message and the assistant content of the turn, and is equal to
\* that session in memory.
C6_TurnSessionSavedAtEnd ==
    [][\A t \in TurnIds :
          (Returns(t) /\ lastSave'.ok /\ turns[t].session \in DOMAIN store') =>
             LET stored == store'[turns[t].session].messages IN
             /\ \E k \in 1..Len(stored) : stored[k].sender = "user"
             /\ turns[t].delivered # <<>> =>
                   \E k \in 1..Len(stored) :
                      /\ stored[k].sender = "llm"
                      /\ IsPrefix(turns[t].delivered, stored[k].content)
             /\ currentSession'.id = turns[t].session =>
                   stored = currentSession'.messages]_vars

\* C7: when a cancelled turn has finished, the stored record of its session
\* (if it still exists) holds the user's message and the assistant content
\* that had been accumulated when cancel was invoked.
C7_CancelKeepsPartialContent ==
    [][\A t \in TurnIds :
          (Returns(t) /\ turns[t].cancelled /\ lastSave'.ok
                      /\ turns[t].session \in DOMAIN store') =>
             LET stored == store'[turns[t].session].messages IN
             /\ \E k \in 1..Len(stored) : stored[k].sender = "user"
             /\ turns[t].atCancel # <<>> =>
                   \E k \in 1..Len(stored) :
                      /\ stored[k].sender = "llm"
                      /\ IsPrefix(turns[t].atCancel, stored[k].content)]_vars

\* C8 (as claimed): when a cancelled turn has finished, the session's message
\* sequence contains an entry noting the cancellation.
C8_MarkerInSession ==
    [][\A t \in TurnIds :
          (Returns(t) /\ turns[t].cancelled) =>
             \E k \in 1..Len(currentSession'.messages) :
                currentSession'.messages[k].content = CancelMarker]_vars

\* C8 (amended): a cancel with a cancel function set appends the cancellation
\* marker as the last card of the displayed transcript, and adds nothing to
\* the session's messages or to the stored records.
C8_MarkerDisplayedOnly ==
    [][(nEvents'.cancel # nEvents.cancel /\ cancelFunc # 0) =>
          /\ chatContainer' = Append(chatContainer, Card("llm", CancelMarker))
          /\ currentSession' = currentSession
          /\ store' = store]_vars

C8_Witness ==
    /\ \E t \in TurnIds : turns[t].pc = "stream" /\ turns[t].cancelled
                           /\ turns[t].atCancel # <<>>
    /\ Len(chatContainer) > 1
    /\ Last(chatContainer) = Card("llm", CancelMarker)
    /\ chatContainer[Len(chatContainer) - 1].sender = "llm"

\* C9: a cancellation is not reported as an error: no card of the displayed
\* conversation is an error entry for "context canceled".
C9_CancelIsNotAnError ==
    \A k \in 1..Len(chatContainer) :
       ~ /\ Len(chatContainer[k].content) > 1
         /\ chatContainer[k].content[1] = "Error"
         /\ Last(chatContainer[k].content) = "context canceled"

\* C10 (its safety part): once a later turn has been submitted, no chunk of a
\* cancelled turn is applied to the session.
C10_NoChunkAfterLaterTurn ==
    [][\A t \in TurnIds :
          (GoroutineStep(t) /\ turns[t].cancelled /\ nTurns > t) =>
             currentSession'.messages = currentSession.messages]_vars

\* the call of the provider has returned, in this step, an error that is not a
\* cancellation
Failed(t) ==
    /\ Returns(t)
    /\ turns'[t].err # NoError
    /\ Last(turns'[t].err) # "context canceled"

\* C11: a cancel invoked a second time in the same turn, or after the turn has
\* ended, is a no-op: it changes neither the session's messages, nor the
\* displayed conversation, nor the in-progress flag.
C11_CancelIdempotent ==
    [][(/\ nEvents'.cancel # nEvents.cancel
        /\ cancelFunc # 0
        /\ (turns[cancelFunc].pc = "done" \/ turns[cancelFunc].cancelled)) =>
          /\ chatContainer' = chatContainer
          /\ currentSession'.messages = currentSession.messages
          /\ queryInProgress' = queryInProgress]_vars

\* C12: when the provider fails for a reason other than cancellation, the
\* stored record of the turn's session (if it still exists, and the save did
\* not fail) holds the user message and the assistant content accumulated so
\* far, and the in-progress flag is cleared.
C12_FailedTurnKeepsContent ==
    [][\A t \in TurnIds :
          (Failed(t) /\ lastSave'.ok /\ turns[t].session \in DOMAIN store') =>
             LET stored == store'[turns[t].session].messages IN
             /\ ~queryInProgress'
             /\ \E k \in 1..Len(stored) : stored[k].sender = "user"
             /\ turns[t].delivered # <<>> =>
                   \E k \in 1..Len(stored) :
                      /\ stored[k].sender = "llm"
                      /\ stored[k].content = turns[t].delivered]_vars

\* C13 (as claimed): after a turn has failed, the session's message sequence
\* contains an error marker message.
C13_ErrorMarkerInSession ==
    [][\A t \in TurnIds :
          Failed(t) =>
             \E k \in 1..Len(currentSession'.messages) :
                /\ Len(currentSession'.messages[k].content) > 0
                /\ currentSession'.messages[k].content[1] = "Error"]_vars

\* C13 (amended): a turn that fails shows the error as the last card of the
\* displayed conversation only: the session's messages are left as they were,
\* and the record the final save wrote holds them without an error marker.
C13_ErrorMarkerDisplayedOnly ==
    [][\A t \in TurnIds :
          Failed(t) =>
             /\ chatContainer' =
                   Append(chatContainer, Card("llm", ErrorMarker(turns'[t].err)))
             /\ currentSession'.messages = currentSession.messages
             /\ lastSave'.ok =>
                   store'[currentSession.id].messages = currentSession.messages]_vars

C13_Witness ==
    \E t \in TurnIds :
       /\ turns[t].pc = "done"
       /\ turns[t].err = <<"ollama error", "boom">>
       /\ Len(chatContainer) > 0
       /\ Last(chatContainer) = Card("llm", ErrorMarker(turns[t].err))
       /\ Len(currentSession.messages) > 1
       /\ Last(currentSession.messages).sender = "llm"
       /\ currentSession.id \in DOMAIN store
       /\ store[currentSession.id].messages = currentSession.messages

\* C14: when the goroutines are scheduled and the provider call returns, every
\* submission is followed by a state in which no turn is running and the
\* in-progress flag is clear, so that a following submission is accepted.
C14_EventuallyIdle ==
    (queryInProgress \/ \E t \in TurnIds : Running(t))
       ~> (~queryInProgress /\ \A t \in TurnIds : ~Running(t))

C14_Witness ==
    /\ nTurns = 2
    /\ turns[1].pc = "done"
    /\ turns[1].err = NoError
    /\ turns[2].pc = "start"
    /\ nEvents.cancel = 0

\* C15: a turn that has ended leaves an assistant message in its session after
\* its user message, also when no fragment was delivered.
C15_AssistantMessageAfterEveryTurn ==
    [][\A t \in TurnIds :
          (Returns(t) /\ currentSession.id = turns[t].session) =>
             /\ Len(currentSession'.messages) > 0
             /\ Last(currentSession'.messages).sender = "llm"]_vars

\* -------------------------------------------------- provider call alone
\* the first frame of a body that ends the loop (Len + 1: none, EOF ends it)
FirstStop(b) ==
    LET stops == {i \in 1..Len(b) : ~b[i].valid \/ b[i].error # <<>> \/ b[i].done}
    IN  IF stops = {} THEN Len(b) + 1
        ELSE CHOOSE i \in stops : \A j \in stops : i <= j

\* the non-empty fragments of frames, in frame order, the first tagged new
FragmentsOf(frames) ==
    LET full == SelectSeq(frames, LAMBDA f : f.response # <<>>)
    IN  [i \in 1..Len(full) |-> [chunk |-> full[i].response, newStream |-> i = 1]]

Streamed == provPc \in {"decode", "returned"} /\ ~doOutcome.err
            /\ doOutcome.status = StatusOK

\* C16: for a body whose frames up to the first completion frame are well
\* formed and carry no error, the calls of the callback are exactly the
\* non-empty fragments of the frames up to and including the first completion
\* frame (of all frames when there is none), in frame order, the first tagged
\* new and the others not; while the loop runs they are those of the frames
\* decoded so far.
C16_CallbacksAreFragments ==
    LET n == FirstStop(respBody) IN
    /\ (Streamed /\ provPc = "decode") =>
          /\ decoded < n
          /\ updates = FragmentsOf(SubSeq(respBody, 1, decoded))
    /\ (Streamed /\ provPc = "returned"
          /\ (n <= Len(respBody) => respBody[n].valid /\ respBody[n].error = <<>>)) =>
          /\ updates = FragmentsOf(SubSeq(respBody, 1,
                                           IF n <= Len(respBody) THEN n
                                           ELSE Len(respBody)))
          /\ provErr = NoError

C16_Witness ==
    /\ provPc = "returned"
    /\ Len(respBody) = 3
    /\ respBody[1].response = <<>>
    /\ respBody[2].done /\ respBody[2].response # <<>>
    /\ respBody[3].response # <<>>
    /\ updates = <<[chunk |-> Chunk(1, 2), newStream |-> TRUE]>>

\* C17: a frame with a non-empty error field ends the call with an error,
\* whatever its completion flag: neither its fragment nor a fragment of a later
\* frame is delivered.
C17_ErrorFrameIsTerminal ==
    LET n == FirstStop(respBody) IN
    (/\ Streamed /\ provPc = "returned"
     /\ n <= Len(respBody)
     /\ respBody[n].valid /\ respBody[n].error # <<>>) =>
       /\ provErr = <<"ollama error">> \o respBody[n].error
       /\ decoded = n
       /\ updates = FragmentsOf(SubSeq(respBody, 1, n - 1))

C17_Witness ==
    /\ provPc = "returned"
    /\ Len(respBody) = 3
    /\ respBody[1].response # <<>> /\ FirstStop(respBody) = 2
    /\ respBody[2].error # <<>> /\ respBody[2].done /\ respBody[2].response # <<>>
    /\ respBody[3].response # <<>>
    /\ provErr = <<"ollama error", "boom">>
    /\ Len(updates) = 1

\* C18: the call returns success only when a frame with the completion flag
\* was observed.
C18_SuccessOnlyAfterCompletion ==
    (provPc = "returned" /\ provErr = NoError) =>
       \E i \in 1..decoded : respBody[i].done

\* C19: a transport failure and a status other than 2xx make the call return
\* an error with no chunk delivered; a malformed frame makes it return an
\* error after the chunks of the earlier frames, and none afterwards.
C19_TransportStatusMalformed ==
    LET n == FirstStop(respBody) IN
    /\ (provPc = "returned" /\ (doOutcome.err \/ doOutcome.status \notin 200..299)) =>
          /\ provErr # NoError
          /\ updates = <<>>
          /\ decoded = 0
    /\ (Streamed /\ provPc = "returned" /\ n <= Len(respBody) /\ ~respBody[n].valid) =>
          /\ provErr = <<"failed to decode response", "invalid character">>
          /\ decoded = n
          /\ updates = FragmentsOf(SubSeq(respBody, 1, n - 1))

C19_Witness ==
    /\ provPc = "returned"
    /\ Len(respBody) = 3
    /\ respBody[1].response # <<>>
    /\ ~respBody[2].valid
    /\ respBody[3].response # <<>>
    /\ provErr # NoError
    /\ Len(updates) = 1

\* ---------------------------------------------------------- prompt alone
\* C20: the prompt holds exactly the last min(n, len(H)) messages of the
\* history H the session had before the submission, in order, followed by one
\* line with the new user text and the assistant marker.
C20_PromptIsWindowThenUserText ==
    fullPrompt # <<>> =>
       LET H == SubSeq(promptSession.messages, 1, Len(promptSession.messages) - 1)
           n == promptSession.maxMessages
           k == IF n < Len(H) THEN n ELSE Len(H)
       IN  fullPrompt = Preamble \o PromptLines(H, Len(H) - k + 1)
                                 \o <<"user: ">> \o inputText \o <<"\nllm:">>

\* C21: with a window of 0 or less the prompt holds no line of the session's
\* messages: it is the preamble, the one new user line and the assistant
\* marker, whatever the length of the history.
C21_NoHistoryForWindowZero ==
    (fullPrompt # <<>> /\ promptSession.maxMessages <= 0) =>
       fullPrompt = Preamble \o <<"user: ">> \o inputText \o <<"\nllm:">>

C21_Witness ==
    /\ fullPrompt # <<>>
    /\ promptSession.maxMessages = 0
    /\ Len(promptSession.messages) = MaxHistory + 1
    /\ Len(fullPrompt) = 4

\* -------------------------------------------------- the file storage
\* C23 as stated: a session that is saved and then loaded comes back equal to
\* the session given to the save in every field, updated_at included.
C23_LoadReturnsWhatWasSaved ==
    [][StoreSave =>
         LET s == fsLast'.session
             r == LoadChatSession(files', s.id)
         IN  r.err = NoError /\ r.session = s]_vars

\* C23: a session that is saved and then loaded comes back with the id, name,
\* messages (in order), created_at, model, provider, max_context_messages and
\* temperature given to the save, and with updated_at equal to the time of the
\* save; nothing of an earlier record of the same id is left.
C23_LoadReturnsSavedWithSaveTime ==
    [][StoreSave =>
         LET s == fsLast'.session
             r == LoadChatSession(files', s.id)
         IN  /\ r.err = NoError
             /\ r.session = [s EXCEPT !.updatedAt = fsNow']]_vars

C23_Witness ==
    /\ fsLast.op = "save"
    /\ fsLast.session.updatedAt = 0
    /\ fsLast.session.messages = <<>>
    /\ fsNow = 1
    /\ LoadChatSession(files, fsLast.id).session.updatedAt = 1

\* C24: the sequence a listing returns is ordered by updated_at, latest first
\* (non-increasing), whatever saves and deletes came before.
C24_ListIsNewestFirst ==
    fsLast.op = "list" =>
       \A i, j \in 1..Len(fsLast.list) :
          i < j => fsLast.list[i].updatedAt >= fsLast.list[j].updatedAt

C24_Witness ==
    /\ fsLast.op = "list"
    /\ Len(fsLast.list) = 2
    /\ fsLast.list[1].updatedAt > fsLast.list[2].updatedAt
    /\ fsLast.list[1].id = "s1"

\* C25: a load succeeds exactly for the ids saved and not deleted since and
\* fails with "not found" for every other id; a listing holds exactly one
\* entry for each such id, and is empty, without error, when there is none.
C25_LoadAndListFollowSaves ==
    /\ \A id \in StoreIds :
          (LoadChatSession(files, id).err = NoError) <=> (id \in everSaved)
    /\ fsLast.op = "load" =>
          /\ (fsLast.err = NoError) <=> (fsLast.id \in everSaved)
          /\ fsLast.err # NoError => fsLast.err[1] = "session not found: "
    /\ fsLast.op = "list" =>
          /\ fsLast.err = NoError
          /\ Len(fsLast.list) = Cardinality(everSaved)
          /\ {fsLast.list[k].id : k \in 1..Len(fsLast.list)} = everSaved

C25_Witness ==
    /\ fsLast.op = "load"
    /\ fsLast.err # NoError
    /\ everSaved = {"s2"}

\* C26: deleting a stored session removes its record and succeeds; deleting an
\* id that is not stored fails with "not found" and leaves the store as it was.
C26_DeleteRemovesOrReportsNotFound ==
    [][StoreDelete =>
         IF fsLast'.id \in DOMAIN files
         THEN /\ fsLast'.err = NoError
              /\ DOMAIN files' = DOMAIN files \ {fsLast'.id}
              /\ \A id \in DOMAIN files' : files'[id] = files[id]
         ELSE /\ fsLast'.err # NoError
              /\ fsLast'.err[1] = "session not found: "
              /\ files' = files]_vars

C26_Witness ==
    /\ fsLast.op = "delete"
    /\ fsLast.err # NoError
    /\ fsLast.id = "s1"
    /\ everSaved = {"s2"}

\* C28: loading the preferences when no record exists gives the default
\* record and no error; after preferences p are saved, loading gives p.
C28_PreferencesDefaultThenSaved ==
    [][/\ (StoreLoadPreferences /\ prefsFile = <<>>) =>
            /\ fsLast'.err = NoError
            /\ fsLast'.prefs = NewDefaultAppPreferences
            /\ fsLast'.prefs # ZeroPreferences
       /\ StoreSavePreferences =>
            LoadAppPreferences(prefsFile') =
               [err |-> NoError, prefs |-> fsLast'.prefs]]_vars

C28_Witness ==
    /\ fsLast.op = "loadPrefs"
    /\ fsLast.err = NoError
    /\ fsLast.prefs.defaultModel = "mistral:latest"
    /\ ~fsLast.prefs.autoSaveHistory

\* ------------------------------------------------ the model selection
\* C22: every submission gives the provider the current session's model when
\* that is not empty, and the global default model of the preferences when it
\* is empty, whatever session switches, deletions, settings saves and choices
\* in the selector came before.
C22_ModelSentIsSessionsOrDefault ==
    [][onSendButtonTappedModel =>
         selectedModel' = IF selSession.model # ""
                          THEN selSession.model
                          ELSE loadGlobalModelPreference(preferencesJson)]_vars

\* C27: a session's updated_at never decreases, in memory or in its record; it
\* is the current time after every step that appends a message to the session
\* or changes its model or settings, and the record's is the current time
\* after every save.
C27_UpdatedAtRefreshed ==
    [][/\ (selReady /\ selSession'.id = selSession.id) =>
            /\ selSession'.updatedAt >= selSession.updatedAt
            /\ (\/ selSession'.messages # selSession.messages
                \/ selSession'.model # selSession.model
                \/ selSession'.maxMessages # selSession.maxMessages
                \/ selSession'.temperature # selSession.temperature)
                  => selSession'.updatedAt = wallClock'
       /\ \A id \in DOMAIN sessionsDir' :
            /\ id \in DOMAIN sessionsDir =>
                  UnmarshalSession(sessionsDir'[id]).updatedAt >=
                     UnmarshalSession(sessionsDir[id]).updatedAt
            /\ (id \notin DOMAIN sessionsDir \/ sessionsDir'[id] # sessionsDir[id])
                  => UnmarshalSession(sessionsDir'[id]).updatedAt = wallClock']_vars

\* ------------------------------------------------ failed auto-save
\* C30: when the save made at a submission fails, the user message is in the
\* session in memory all the same and the goroutine of the turn is started;
\* that turn comes to its end, and at its end the final save is made.
C30_FailedAutoSaveIsSwallowed ==
    /\ [][/\ (nTurns' # nTurns /\ ~lastSave'.ok) =>
               /\ \E query \in UserTexts :
                     currentSession'.messages =
                        Append(currentSession.messages, NewChatMessage("user", query))
               /\ queryInProgress'
               /\ turns'[nTurns'].pc = "start"
          /\ \A t \in TurnIds :
               (turns[t].unsaved /\ Returns(t)) =>
                  /\ lastSave' = [id |-> currentSession'.id, ok |-> TRUE]
                  /\ currentSession'.id \in DOMAIN store'
                  /\ store'[currentSession'.id].messages = currentSession'.messages]_vars
    /\ (\E t \in TurnIds : turns[t].unsaved /\ Running(t))
          ~> (\A t \in TurnIds : turns[t].unsaved => turns[t].pc = "done")

C30_Witness ==
    /\ nTurns = 1
    /\ turns[1].pc = "done"
    /\ turns[1].unsaved
    /\ turns[1].err = NoError
    /\ lastSave.ok
    /\ currentSession.id \in DOMAIN store
    /\ store[currentSession.id].messages = currentSession.messages
    /\ Len(currentSession.messages) = 2

\* ------------------------------------------------------ session ids
\* C29: a session made by New Chat gets an id that no other session has, in
\* memory or in the store, so that its first save writes no other session's
\* record; the handlers that work on the current session leave its id as it
\* is, and a record is stored under the id it holds.
C29_NewSessionIdIsFresh ==
    [][/\ onNewSessionTappedModel =>
            /\ selSession'.id # selSession.id
            /\ selSession'.id \notin DOMAIN sessionsDir
       /\ (onSendButtonTappedModel \/ onModelSelect \/ saveSettings) =>
            selSession'.id = selSession.id
       /\ \A id \in DOMAIN sessionsDir' :
            UnmarshalSession(sessionsDir'[id]).id = id]_vars

\* ------------------------------------------------ the provider factory
\* C31: a provider is made only for the type "ollama"; for "openai", "eino"
\* and every unknown type the call returns an error and no provider; a
\* SwitchProvider that returns an error leaves App.provider, the provider of
\* the chat window and config.LLM.Provider as they were.
C31_OnlyOllamaIsCreated ==
    [][nCalls' # nCalls =>
         /\ factoryLast'.providerType # "ollama" =>
               /\ factoryLast'.err # NoError
               /\ factoryLast'.provider = NoProvider
         /\ factoryLast'.err # NoError => factoryLast'.provider = NoProvider
         /\ factoryLast'.err = NoError =>
               /\ factoryLast'.providerType = "ollama"
               /\ factoryLast'.provider.name = "ollama"
         /\ (factoryLast'.op = "switch" /\ factoryLast'.err # NoError) =>
               UNCHANGED <<appProvider, chatProvider, llmConfig>>
         /\ factoryLast'.op # "switch" =>
               UNCHANGED <<appProvider, chatProvider, llmConfig>>]_vars

C31_Witness ==
    /\ factoryLast.op = "switch"
    /\ factoryLast.providerType = "eino"
    /\ factoryLast.err # NoError
    /\ appProvider.name = "ollama"
    /\ llmConfig.provider = "ollama"
\* the step is the handler of a UI event, run by the main goroutine
HandlerStep == nEvents' # nEvents \/ nTurns' # nTurns

\* C32: the accesses to the shared data are synchronized: no UI event handler
\* writes the current session while a streaming goroutine, whose callbacks
\* write it, is between two of its writes, and none writes the cached session
\* list while a refresh goroutine that writes it has been started and has not
\* run yet.
C32_SharedDataSynchronized ==
    [][HandlerStep =>
          /\ currentSession' # currentSession
                => \A t \in TurnIds : turns[t].pc # "stream"
          /\ sessions' # sessions => pendingRefresh = 0]_vars

\* ------------------------------------------------ the settings dialog
\* C33: a call of saveSettings that returns an error has changed neither the
\* configuration in memory nor the model, context window and temperature of
\* the session.
C33_FailedSaveChangesNothing ==
    [][(SettingsDialogSaveSettings /\ settingsLast'.err # NoError) =>
          /\ config' = config
          /\ setSession'.model = setSession.model
          /\ setSession'.maxMessages = setSession.maxMessages
          /\ setSession'.temperature = setSession.temperature]_vars

\* C34: a session made while the configured default of max messages is 0 has
\* a context window of 0, and a prompt sent in it holds no line of history.
C34_DefaultZeroDisablesContext ==
    (config # <<>> /\ createdUnder = 0) =>
        /\ setSession.maxMessages = 0
        /\ sentPrompt # <<>> =>
              sentPrompt = Preamble \o <<"user: ">> \o <<"q">> \o <<"\nllm:">>

\* C39: the configuration that LoadConfig makes on the first run passes
\* ValidateConfig, and no call of saveSettings on that installation is
\* rejected by the validation of the configuration.
C39_DefaultConfigIsValid ==
    (config # <<>> /\ firstRun) =>
        /\ nSettings = 0 => ValidateConfig(config) = NoError
        /\ settingsLast.err # NoError =>
              settingsLast.err[1] # "configuration validation failed"

\* ------------------------------------------- the session operations
\* the sessions of the directory st that no other session is newer than
Newest(st) ==
    {st[i] : i \in {j \in DOMAIN st : \A k \in DOMAIN st :
                                         st[k].updatedAt <= st[j].updatedAt}}

C36_DeleteMovesToNewestOrNew ==
    [][deleteCurrentSession =>
          IF store' = store
          THEN currentSession' = currentSession
          ELSE LET remaining == DeleteChatSession(store, currentSession.id)
               IN  /\ currentSession.id \notin DOMAIN store'
                   /\ IF DOMAIN remaining # {}
                      THEN /\ currentSession' \in Newest(remaining)
                           /\ store' = remaining
                      ELSE /\ currentSession'.messages = <<>>
                           /\ currentSession'.id \in DOMAIN store'
                           /\ store'[currentSession'.id].messages = <<>>]_vars

\* C37: a deleted session is never written again: once the record of a
\* session of an earlier run is gone from the directory (only a deletion
\* removes a record), no step puts a record of that id back.
C37_DeletedNeverResurrected ==
    [][\A id \in DOMAIN OldStore :
          id \notin DOMAIN store => id \notin DOMAIN store']_vars

====
